---- MODULE Spec2Model ----
(***************************************************************************)
(* Model of the Form Builder JWT client (lib/fb-jwt-client-node/client.js) *)
(* and of the two domain clients built on it, the user datastore client    *)
(* (lib/fb-user-datastore-client.js) and the submitter client              *)
(* (lib/submitter.js).                                                     *)
(*                                                                         *)
(* A client is constructed, then used for one call at a time: the call     *)
(* builds its request synchronously, the HTTP transport settles it, and    *)
(* the promise callbacks of the client turn the settlement into the        *)
(* result of the call.                                                     *)
(***************************************************************************)
EXTENDS Integers, Sequences, FiniteSets, TLC

(***************************************************************************)
(* JavaScript scalars.  A code, a message or a status code is a number, a  *)
(* string or undefined; the three are kept apart because the client        *)
(* compares them with === and tests them for truthiness.                   *)
(***************************************************************************)
Undefined == [t |-> "undefined", n |-> 0, s |-> ""]

Num(n) == [t |-> "number", n |-> n, s |-> ""]

Str(s) == [t |-> "string", n |-> 0, s |-> s]

\* ToBoolean of a scalar: 0, '' and undefined are falsy.
Truthy(v) ==
    CASE v.t = "number" -> v.n # 0
      [] v.t = "string" -> v.s # ""
      [] OTHER -> FALSE

\* a || b
OrElse(a, b) == IF Truthy(a) THEN a ELSE b

(***************************************************************************)
(* JSON values and JSON text.  A text is a sequence of characters of       *)
(* Alphabet; the characters stand for the bytes the cipher works on.  The  *)
(* values are the numbers and the (nested) arrays that can be written      *)
(* with these characters; "x" is a character no JSON text contains.        *)
(***************************************************************************)
Alphabet == <<"0", "1", "2", "3", "[", "]", ",", "x">>

Digit == {"0", "1", "2", "3"}

\* The position of a character in Alphabet, from 0: its byte value.
ByteOf(ch) == (CHOOSE i \in 1..Len(Alphabet) : Alphabet[i] = ch) - 1

CharOf(b) == Alphabet[b + 1]

JNum(n) == [t |-> "number", n |-> n, a |-> <<>>]

JArr(a) == [t |-> "array", n |-> 0, a |-> a]

RECURSIVE DigitsOf(_)
DigitsOf(n) ==
    IF n < 10 THEN <<CharOf(n)>> ELSE Append(DigitsOf(n \div 10), CharOf(n % 10))

RECURSIVE JSONStringify(_)
RECURSIVE JoinElements(_)
\* The elements of an array, each preceded by a comma.
JoinElements(a) ==
    IF a = <<>> THEN <<>>
    ELSE <<",">> \o JSONStringify(Head(a)) \o JoinElements(Tail(a))

\* JSON.stringify(v), for a JSON value v.
JSONStringify(v) ==
    IF v.t = "number" THEN DigitsOf(v.n)
    ELSE IF v.a = <<>> THEN <<"[", "]">>
    ELSE <<"[">> \o Tail(JoinElements(v.a)) \o <<"]">>

ParseFailure == [ok |-> FALSE, v |-> JNum(0), next |-> 0]

\* The end of the run of digits of s that starts at i.
RECURSIVE DigitsEnd(_, _)
DigitsEnd(s, i) ==
    IF i <= Len(s) /\ s[i] \in Digit THEN DigitsEnd(s, i + 1) ELSE i

RECURSIVE NumberOf(_)
NumberOf(ds) ==
    IF Len(ds) = 1 THEN ByteOf(ds[1])
    ELSE 10 * NumberOf(SubSeq(ds, 1, Len(ds) - 1)) + ByteOf(ds[Len(ds)])

RECURSIVE ParseValueAt(_, _)
RECURSIVE ParseElementsAt(_, _, _)
\* The elements of an array from position i on, up to its closing bracket.
ParseElementsAt(s, i, acc) ==
    LET r == ParseValueAt(s, i) IN
    IF ~r.ok \/ r.next > Len(s) THEN ParseFailure
    ELSE IF s[r.next] = "," THEN ParseElementsAt(s, r.next + 1, Append(acc, r.v))
    ELSE IF s[r.next] = "]"
         THEN [ok |-> TRUE, v |-> JArr(Append(acc, r.v)), next |-> r.next + 1]
    ELSE ParseFailure

\* The JSON value that starts at position i of s, and where it ends.
ParseValueAt(s, i) ==
    IF i > Len(s) THEN ParseFailure
    ELSE IF s[i] = "0" THEN [ok |-> TRUE, v |-> JNum(0), next |-> i + 1]
    ELSE IF s[i] \in Digit
         THEN LET e == DigitsEnd(s, i) IN
              [ok |-> TRUE, v |-> JNum(NumberOf(SubSeq(s, i, e - 1))), next |-> e]
    ELSE IF s[i] = "["
         THEN IF i + 1 <= Len(s) /\ s[i + 1] = "]"
              THEN [ok |-> TRUE, v |-> JArr(<<>>), next |-> i + 2]
              ELSE ParseElementsAt(s, i + 1, <<>>)
    ELSE ParseFailure

\* JSON.parse(s): the value, or a SyntaxError (ok = FALSE) when s is not
\* exactly one JSON value.
JSONParse(s) ==
    LET r == ParseValueAt(s, 1) IN
    IF r.ok /\ r.next = Len(s) + 1 THEN [ok |-> TRUE, v |-> r.v]
    ELSE [ok |-> FALSE, v |-> JNum(0)]

(***************************************************************************)
(* The aes256 module the client encrypts with: AES-256 in counter mode     *)
(* under the SHA-256 digest of the key, with a random initialization       *)
(* vector put in front of the ciphertext, the whole base64-encoded.        *)
(* Counter mode XORs the text with a key stream that depends on the key    *)
(* and on the vector; it adds no integrity check.  Here a byte has three   *)
(* bits, the vector is one byte, and KeyStream stands for the block        *)
(* cipher.  A key is a positive number; 0 stands for a missing or empty    *)
(* one.                                                                    *)
(***************************************************************************)
Bit(a, k) == (a \div (2 ^ k)) % 2

Xor(a, b) ==
    ((Bit(a, 0) + Bit(b, 0)) % 2) + 2 * ((Bit(a, 1) + Bit(b, 1)) % 2)
        + 4 * ((Bit(a, 2) + Bit(b, 2)) % 2)

\* The i-th byte of the key stream of a key and an initialization vector.
KeyStream(key, iv, i) ==
    (5 * key + (2 * key + 1) * (iv + i)) % Len(Alphabet)

B64Alphabet == <<"A", "B", "C", "D", "E", "F", "G", "H">>

B64Encode(bytes) == [i \in 1..Len(bytes) |-> B64Alphabet[bytes[i] + 1]]

IsB64(ch) == \E i \in 1..Len(B64Alphabet) : B64Alphabet[i] = ch

\* Buffer.from(s, 'base64'): characters outside the base64 alphabet are skipped.
B64Decode(s) ==
    LET kept == SelectSeq(s, IsB64) IN
    [i \in 1..Len(kept) |->
        (CHOOSE b \in 1..Len(B64Alphabet) : B64Alphabet[b] = kept[i]) - 1]

\* A JavaScript value that is a string of characters, or undefined.
StringValue(s) == [t |-> "string", s |-> s]

UndefinedString == [t |-> "undefined", s |-> <<>>]

\* aes256.encrypt(key, plaintext) with the random vector iv.  It throws a
\* TypeError for a key or a plaintext that is not a non-empty string.
Aes256Encrypt(key, iv, plaintext) ==
    IF key = 0 \/ plaintext.t # "string" \/ plaintext.s = <<>>
    THEN [ok |-> FALSE, s |-> <<>>]
    ELSE [ok |-> TRUE,
          s |-> B64Encode(<<iv>> \o
                   [i \in 1..Len(plaintext.s) |->
                       Xor(ByteOf(plaintext.s[i]), KeyStream(key, iv, i))])]

\* aes256.decrypt(key, encrypted).  It throws a TypeError for a key or an
\* input that is not a non-empty string, and for an input that holds no byte
\* after the vector; otherwise it returns whatever the key stream yields.
Aes256Decrypt(key, encrypted) ==
    LET input == B64Decode(encrypted.s) IN
    IF key = 0 \/ encrypted.t # "string" \/ encrypted.s = <<>> \/ Len(input) < 2
    THEN [ok |-> FALSE, s |-> <<>>]
    ELSE [ok |-> TRUE,
          s |-> [i \in 1..(Len(input) - 1) |->
                    CharOf(Xor(input[i + 1], KeyStream(key, input[1], i)))]]

(***************************************************************************)
(* Error objects.  An error class is known by its name and by the client   *)
(* instance whose constructor declared it (0 for a class declared at       *)
(* module level).  An object thrown or rejected carries the fields the     *)
(* client reads or sets; id tells objects apart: "raw" is the object the   *)
(* transport rejected with, "ext" one made by the caller, "new" the one    *)
(* the running operation allocates.                                        *)
(***************************************************************************)
FBJWTClientError == [name |-> "FBJWTClientError", owner |-> 0]

PlainObject == [name |-> "Object", owner |-> 0]

TypeErrorClass == [name |-> "TypeError", owner |-> 0]

NoErrorField == [present |-> FALSE, code |-> Undefined]

ErrorField(code) == [present |-> TRUE, code |-> code]

NoError ==
    [t |-> "none", id |-> "none", inst |-> PlainObject, name |-> Undefined,
     code |-> Undefined, message |-> Undefined, statusCode |-> Undefined,
     error |-> NoErrorField]

\* new ErrorClass({message, error: {code}}): an FBError is named after its
\* class and carries the code and the message it was given.
NewError(ErrorClass, message, code) ==
    [NoError EXCEPT !.t = "object", !.id = "new", !.inst = ErrorClass,
                    !.name = Str(ErrorClass.name), !.code = code,
                    !.message = message]

\* A TypeError raised by the runtime or by a library.
NewTypeError ==
    [NoError EXCEPT !.t = "object", !.id = "new", !.inst = TypeErrorClass,
                    !.name = Str("TypeError")]

\* throwRequestError without the default of the message.
throwRequestError_NoDefaultMessage(client, code, message) ==
    NewError(client.ErrorClass, message, code)

\* The error throwRequestError(code, message) throws.
throwRequestError(client, code, message) ==
    NewError(client.ErrorClass, OrElse(message, code), code)

\* handleRequestError with one slip v: "swapped" exchanges 502 and 503,
\* "nodefault" leaves out the EUNSPECIFIED default, "noelse" leaves out the
\* ENOERROR branch, "errorfirst" looks at err.error before err.statusCode,
\* "rewrap" wraps the client's own error again.
handleRequestErrorWith(client, err, v) ==
    LET ofError ==
            LET code == IF v = "nodefault" THEN err.error.code
                        ELSE OrElse(err.error.code, Str("EUNSPECIFIED"))
                statusCode == IF code = Str("ENOTFOUND")
                              THEN (IF v = "swapped" THEN 503 ELSE 502)
                              ELSE IF code = Str("ECONNREFUSED")
                              THEN (IF v = "swapped" THEN 502 ELSE 503)
                              ELSE 500
            IN throwRequestError(client, Num(statusCode), code)
        ofStatus == throwRequestError(client, err.statusCode, Undefined)
    IN IF err.t \in {"undefined", "null"} THEN NewTypeError
       ELSE IF err.name = Str(client.ErrorClass.name)
       THEN (IF v = "rewrap" THEN throwRequestError(client, err.code, err.message)
             ELSE err)
       ELSE IF v = "errorfirst" /\ err.error.present THEN ofError
       ELSE IF Truthy(err.statusCode) THEN ofStatus
       ELSE IF err.error.present \/ v = "noelse" THEN ofError
       ELSE throwRequestError(client, Num(500), Str("ENOERROR"))

handleRequestError_Swapped(client, err) == handleRequestErrorWith(client, err, "swapped")

handleRequestError_NoDefault(client, err) == handleRequestErrorWith(client, err, "nodefault")

handleRequestError_NoElse(client, err) == handleRequestErrorWith(client, err, "noelse")

handleRequestError_ErrorFirst(client, err) == handleRequestErrorWith(client, err, "errorfirst")

handleRequestError_Rewrap(client, err) == handleRequestErrorWith(client, err, "rewrap")

\* The error handleRequestError(err) throws: it never returns.
handleRequestError(client, err) ==
    IF err.t \in {"undefined", "null"} THEN NewTypeError
    ELSE IF err.name = Str(client.ErrorClass.name) THEN err
    ELSE IF Truthy(err.statusCode)
         THEN IF err.statusCode = Num(404)
              THEN throwRequestError(client, Num(404), Undefined)
              ELSE throwRequestError(client, err.statusCode, Undefined)
    ELSE IF err.error.present
         THEN LET code == OrElse(err.error.code, Str("EUNSPECIFIED"))
                  statusCode == IF code = Str("ENOTFOUND") THEN 502
                                ELSE IF code = Str("ECONNREFUSED") THEN 503
                                ELSE 500
              IN throwRequestError(client, Num(statusCode), code)
    ELSE throwRequestError(client, Num(500), Str("ENOERROR"))

(***************************************************************************)
(* The synchronous methods of the base client.  Each yields a completion:  *)
(* the value returned, or the error thrown.                                *)
(***************************************************************************)
\* encrypt that always starts from the same vector.
encrypt_FixedIV(client, token, data, iv) ==
    LET dataString == StringValue(JSONStringify(data))
        encryptedData == Aes256Encrypt(token, 0, dataString)
    IN IF encryptedData.ok
       THEN [thrown |-> FALSE, s |-> StringValue(encryptedData.s), error |-> NoError]
       ELSE [thrown |-> TRUE, s |-> UndefinedString, error |-> NewTypeError]

\* encrypt(token, data) with the random vector iv; aes256's TypeError is
\* not caught.
encrypt(client, token, data, iv) ==
    LET dataString == StringValue(JSONStringify(data))
        encryptedData == Aes256Encrypt(token, iv, dataString)
    IN IF encryptedData.ok
       THEN [thrown |-> FALSE, s |-> StringValue(encryptedData.s), error |-> NoError]
       ELSE [thrown |-> TRUE, s |-> UndefinedString, error |-> NewTypeError]

\* decrypt that takes the client's service token for the key.
decrypt_UnderServiceToken(client, token, encryptedData) ==
    LET data == Aes256Decrypt(client.serviceToken, encryptedData)
        parsed == JSONParse(data.s)
    IN IF data.ok /\ parsed.ok
       THEN [thrown |-> FALSE, v |-> parsed.v, error |-> NoError]
       ELSE [thrown |-> TRUE, v |-> JNum(0),
             error |-> throwRequestError(client, Num(500), Str("EINVALIDPAYLOAD"))]

\* decrypt(token, encryptedData): whatever aes256.decrypt or JSON.parse
\* throws becomes EINVALIDPAYLOAD.
decrypt(client, token, encryptedData) ==
    LET data == Aes256Decrypt(token, encryptedData)
        parsed == JSONParse(data.s)
    IN IF data.ok /\ parsed.ok
       THEN [thrown |-> FALSE, v |-> parsed.v, error |-> NoError]
       ELSE [thrown |-> TRUE, v |-> JNum(0),
             error |-> throwRequestError(client, Num(500), Str("EINVALIDPAYLOAD"))]

(***************************************************************************)
(* URL patterns.  A URL or a pattern is a sequence of pieces: literal text *)
(* or a :name placeholder, as path-to-regexp reads it.                     *)
(***************************************************************************)
Lit(s) == [k |-> "lit", s |-> s]

Param(n) == [k |-> "param", s |-> n]

\* encodeURIComponent(v), on the values the model uses: a key of urlKeys is
\* a scalar; a number is written in decimal, "/" is escaped.
EncodeURIComponent(v) ==
    IF v.t = "number" THEN ToString(v.n)
    ELSE IF v.s = "a/b" THEN "a%2Fb" ELSE v.s

\* getEndpointUrl(urlPattern, urlKeys): pathToRegexp.compile(urlPattern)
\* applied to urlKeys; it throws a TypeError when a placeholder has no value.
getEndpointUrl(urlPattern, urlKeys) ==
    IF \E i \in 1..Len(urlPattern) :
           /\ urlPattern[i].k = "param"
           /\ \/ urlPattern[i].s \notin DOMAIN urlKeys
              \/ urlKeys[urlPattern[i].s] \in {Undefined, Str("")}
    THEN [thrown |-> TRUE, url |-> <<>>, error |-> NewTypeError]
    ELSE [thrown |-> FALSE,
          url |-> [i \in 1..Len(urlPattern) |->
                      IF urlPattern[i].k = "param"
                      THEN Lit(EncodeURIComponent(urlKeys[urlPattern[i].s]))
                      ELSE urlPattern[i]],
          error |-> NoError]

\* urlKeys = {}
NoKeys == [n \in {} |-> Undefined]

(***************************************************************************)
(* Request payloads: the object a POST sends.  keys is Object.keys of it.  *)
(***************************************************************************)
EmptyPayload ==
    [keys |-> {}, payload |-> UndefinedString, service_slug |-> "",
     encrypted_user_id_and_token |-> UndefinedString,
     submissions |-> JArr(<<>>), foo |-> JNum(0)]

\* const algorithm = 'HS256'
algorithm == "HS256"

\* jwt.sign(payload, secret, {algorithm}) when Date.now() is now: the token
\* holds the payload's fields and the iat that sign adds, the time in whole
\* seconds; key is the secret its signature was made with.
JwtSign(payload, secret, alg, now) ==
    [alg |-> alg, key |-> secret, claims |-> payload, iat |-> now \div 1000]

\* jwt.verify(token, secret): the decoded claims, or an error when the
\* signature is not one made with secret by an HMAC algorithm.
JwtVerify(token, secret) ==
    IF token.key = secret /\ secret # 0 /\ token.alg \in {"HS256", "HS384", "HS512"}
    THEN [ok |-> TRUE, claims |-> token.claims, iat |-> token.iat]
    ELSE [ok |-> FALSE, claims |-> EmptyPayload, iat |-> 0]

\* generateAccessToken that sets iat itself, to Date.now().
generateAccessToken_MillisecondIat(client, payload, now) ==
    [JwtSign(payload, client.serviceToken, algorithm, now) EXCEPT !.iat = now]

\* generateAccessToken(payload) when Date.now() is now.
generateAccessToken(client, payload, now) ==
    JwtSign(payload, client.serviceToken, algorithm, now)

\* form: the form option, which only external.set uses.
NoRequest ==
    [sent |-> FALSE, method |-> "none", url |-> <<>>,
     headers |-> [xAccessToken |-> generateAccessToken([serviceToken |-> 0], EmptyPayload, 0)],
     json |-> [isTrue |-> TRUE, body |-> EmptyPayload],
     form |-> EmptyPayload]

\* createRequestOptions that always takes the payload for the json option.
createRequestOptions_JsonAlwaysPayload(client, urlPattern, urlKeys, payload, now) ==
    LET accessToken == generateAccessToken(client, payload, now)
        url == getEndpointUrl(urlPattern, urlKeys)
        json == [isTrue |-> FALSE, body |-> payload]
    IN IF url.thrown
       THEN [thrown |-> TRUE, error |-> url.error, options |-> NoRequest,
             generated |-> <<accessToken>>]
       ELSE [thrown |-> FALSE, error |-> NoError, generated |-> <<accessToken>>,
             options |-> [NoRequest EXCEPT !.url = url.url,
                                           !.headers = [xAccessToken |-> accessToken],
                                           !.json = json]]

\* createRequestOptions that sends a token the client made beforehand,
\* at time 0 and with no payload, and generates none.
createRequestOptions_CachedToken(client, urlPattern, urlKeys, payload, now) ==
    LET accessToken == generateAccessToken(client, EmptyPayload, 0)
        url == getEndpointUrl(urlPattern, urlKeys)
        json == IF payload.keys # {} THEN [isTrue |-> FALSE, body |-> payload]
                ELSE [isTrue |-> TRUE, body |-> EmptyPayload]
    IN IF url.thrown
       THEN [thrown |-> TRUE, error |-> url.error, options |-> NoRequest,
             generated |-> <<>>]
       ELSE [thrown |-> FALSE, error |-> NoError, generated |-> <<>>,
             options |-> [NoRequest EXCEPT !.url = url.url,
                                           !.headers = [xAccessToken |-> accessToken],
                                           !.json = json]]

\* createRequestOptions(urlPattern, urlKeys, payload = {}) at time now;
\* generated lists the tokens generateAccessToken returned on the way.
createRequestOptions(client, urlPattern, urlKeys, payload, now) ==
    LET accessToken == generateAccessToken(client, payload, now)
        url == getEndpointUrl(urlPattern, urlKeys)
        json == IF payload.keys # {} THEN [isTrue |-> FALSE, body |-> payload]
                ELSE [isTrue |-> TRUE, body |-> EmptyPayload]
    IN IF url.thrown
       THEN [thrown |-> TRUE, error |-> url.error, options |-> NoRequest,
             generated |-> <<accessToken>>]
       ELSE [thrown |-> FALSE, error |-> NoError, generated |-> <<accessToken>>,
             options |-> [NoRequest EXCEPT !.url = url.url,
                                           !.headers = [xAccessToken |-> accessToken],
                                           !.json = json]]

(***************************************************************************)
(* The clients.  A token is a key (0: missing), a URL a sequence of        *)
(* pieces (<<>>: missing), a slug a string ("": missing).                  *)
(***************************************************************************)
NoClass == [name |-> "", owner |-> 0]

\* inits: how many times external.init has run, for the module-level client.
NoClient ==
    [constructed |-> FALSE, cls |-> "none", ErrorClass |-> FBJWTClientError,
     serviceToken |-> 0, serviceSlug |-> "", endpoints |-> NoKeys, inits |-> 0]

\* The base constructor that keeps the default error class whatever it is given.
FBJWTClient_DefaultErrorClass(serviceToken, errorClass) ==
    LET this == [NoClient EXCEPT !.cls = "FBJWTClient"]
    IN IF serviceToken = 0
       THEN [thrown |-> TRUE, this |-> this,
             error |-> throwRequestError(this, Str("ENOSERVICETOKEN"),
                                         Str("No service token passed to client"))]
       ELSE [thrown |-> FALSE, error |-> NoError,
             this |-> [this EXCEPT !.serviceToken = serviceToken,
                                   !.constructed = TRUE]]

\* new FBJWTClient(serviceToken, errorClass); NoClass: no errorClass given,
\* the prototype's ErrorClass applies.
FBJWTClient(serviceToken, errorClass) ==
    LET this == [NoClient EXCEPT !.cls = "FBJWTClient",
                                 !.ErrorClass = IF errorClass # NoClass THEN errorClass
                                                ELSE FBJWTClientError]
    IN IF serviceToken = 0
       THEN [thrown |-> TRUE, this |-> this,
             error |-> throwRequestError(this, Str("ENOSERVICETOKEN"),
                                         Str("No service token passed to client"))]
       ELSE [thrown |-> FALSE, error |-> NoError,
             this |-> [this EXCEPT !.serviceToken = serviceToken,
                                   !.constructed = TRUE]]

endpointUrlTemplate ==
    <<Lit("/service/"), Param("serviceSlug"), Lit("/user/"), Param("userId"), Lit(".json")>>

DataStoreEndpoints == [get |-> endpointUrlTemplate, set |-> endpointUrlTemplate]

\* The constructor with the check of the slug put before that of the URL.
FBUserDataStoreClient_SlugFirst(serviceToken, userDataStoreUrl, serviceSlug) ==
    LET FBUserDataStoreClientError == [name |-> "FBUserDataStoreClientError", owner |-> 1]
        super == FBJWTClient(serviceToken, FBUserDataStoreClientError)
        this == [super.this EXCEPT !.cls = "FBUserDataStoreClient"]
    IN IF super.thrown THEN [super EXCEPT !.this = this]
       ELSE IF serviceSlug = ""
       THEN [thrown |-> TRUE, this |-> this,
             error |-> throwRequestError(this, Str("ENOSERVICESLUG"),
                                         Str("No service slug passed to client"))]
       ELSE IF userDataStoreUrl = <<>>
       THEN [thrown |-> TRUE, this |-> this,
             error |-> throwRequestError(this, Str("ENOUSERDATASTOREURL"),
                                         Str("No user datastore url passed to client"))]
       ELSE [thrown |-> FALSE, error |-> NoError,
             this |-> [this EXCEPT
                          !.serviceSlug = serviceSlug,
                          !.endpoints = [get |-> userDataStoreUrl \o DataStoreEndpoints.get,
                                         set |-> userDataStoreUrl \o DataStoreEndpoints.set]]]

\* new FBUserDataStoreClient(serviceToken, userDataStoreUrl, serviceSlug)
FBUserDataStoreClient(serviceToken, userDataStoreUrl, serviceSlug) ==
    LET FBUserDataStoreClientError == [name |-> "FBUserDataStoreClientError", owner |-> 1]
        super == FBJWTClient(serviceToken, FBUserDataStoreClientError)
        this == [super.this EXCEPT !.cls = "FBUserDataStoreClient"]
    IN IF super.thrown THEN [super EXCEPT !.this = this]
       ELSE IF userDataStoreUrl = <<>>
       THEN [thrown |-> TRUE, this |-> this,
             error |-> throwRequestError(this, Str("ENOUSERDATASTOREURL"),
                                         Str("No user datastore url passed to client"))]
       ELSE IF serviceSlug = ""
       THEN [thrown |-> TRUE, this |-> this,
             error |-> throwRequestError(this, Str("ENOSERVICESLUG"),
                                         Str("No service slug passed to client"))]
       ELSE [thrown |-> FALSE, error |-> NoError,
             this |-> [this EXCEPT
                          !.serviceSlug = serviceSlug,
                          !.endpoints = [get |-> userDataStoreUrl \o DataStoreEndpoints.get,
                                         set |-> userDataStoreUrl \o DataStoreEndpoints.set]]]

SubmitterEndpoints ==
    [submit |-> <<Lit("/submission")>>,
     getStatus |-> <<Lit("/submission/"), Param("submissionId")>>]

\* new FBSubmitterClient(serviceToken, submitterUrl, serviceSlug)
FBSubmitterClient(serviceToken, submitterUrl, serviceSlug) ==
    LET FBSubmitterClientError == [name |-> "FBSubmitterClientError", owner |-> 1]
        super == FBJWTClient(serviceToken, FBSubmitterClientError)
        this == [super.this EXCEPT !.cls = "FBSubmitterClient"]
    IN IF super.thrown THEN [super EXCEPT !.this = this]
       ELSE IF submitterUrl = <<>>
       THEN [thrown |-> TRUE, this |-> this,
             error |-> throwRequestError(this, Str("ENOSUBMITTERURL"),
                                         Str("No submitter url passed to client"))]
       ELSE IF serviceSlug = ""
       THEN [thrown |-> TRUE, this |-> this,
             error |-> throwRequestError(this, Str("ENOSERVICESLUG"),
                                         Str("No service slug passed to client"))]
       ELSE [thrown |-> FALSE, error |-> NoError,
             this |-> [this EXCEPT
                          !.serviceSlug = serviceSlug,
                          !.endpoints = [submit |-> submitterUrl \o SubmitterEndpoints.submit,
                                         getStatus |-> submitterUrl \o SubmitterEndpoints.getStatus]]]

(***************************************************************************)
(* Bounds and inputs.                                                      *)
(***************************************************************************)
\* Tokens are the keys 1..NKeys.
NKeys == 2

\* external.init runs at most MaxInits times.
MaxInits == 2

\* The random initialization vectors are 0..MaxIV.
MaxIV == 1

\* The clock runs from 0 to MaxTime seconds, in steps of half a second.
MaxTime == 1

Keys == 1..NKeys

IVs == 0..MaxIV

\* The JSON values callers store and submit.
JSONValues == {JNum(1), JNum(23), JArr(<<>>), JArr(<<JNum(1), JNum(2)>>)}

UserIds == {Num(3)}

SubmissionIds == {Str("s1")}

BaseUrl == <<Lit("https://microservice")>>

\* A base URL with a port, 'http://host:3000', as path-to-regexp reads it
\* once a template is appended: a colon followed by word characters is a
\* placeholder, the digits of a port included.
PortUrl == <<Lit("http://host"), Param("3000")>>

\* The patterns and the keys of the direct calls of sendGet and sendPost:
\* '/url', and '/user/:userId' with and without a value for userId.
SendPatterns == {<<Lit("/url")>>, <<Lit("/user/"), Param("userId")>>}

SendKeys == {NoKeys, [userId |-> Num(3)]}

\* The payloads of the direct calls of sendPost: none or {}, and {foo: 1}.
SendPayloads == {EmptyPayload, [EmptyPayload EXCEPT !.keys = {"foo"}, !.foo = JNum(1)]}

\* What the transport resolves with: the parsed response body.
NoBody == [t |-> "undefined", keys |-> {}, payload |-> UndefinedString, status |-> JNum(0)]

NullBody == [NoBody EXCEPT !.t = "null"]

EmptyObjectBody == [NoBody EXCEPT !.t = "object"]

\* A body that was not parsed: a string.
TextBody == [NoBody EXCEPT !.t = "string"]

PayloadBody(s) == [NoBody EXCEPT !.t = "object", !.keys = {"iat", "payload"}, !.payload = s]

StatusBody(v) == [NoBody EXCEPT !.t = "object", !.keys = {"status"}, !.status = v]

\* The ciphertexts of encryptedData with its last character changed, and
\* the one cut down to its initialization vector.
Corruptions(encryptedData) ==
    LET s == encryptedData.s IN
    {StringValue([s EXCEPT ![Len(s)] = B64Alphabet[b]]) :
        b \in {b \in 1..Len(B64Alphabet) : B64Alphabet[b] # s[Len(s)]}}
      \cup {StringValue(SubSeq(s, 1, 1))}

\* The ciphertexts a datastore can hold: what some caller stored.
StoredPayloads ==
    {StringValue(Aes256Encrypt(k, iv, StringValue(JSONStringify(v))).s) :
        k \in Keys, iv \in IVs, v \in JSONValues}

\* The objects the transport rejects with: a status code, an error field,
\* both or neither.
RawErrors ==
    {[NoError EXCEPT !.t = "object", !.id = "raw", !.statusCode = sc, !.error = ef] :
        sc \in {Undefined, Num(0), Num(401), Num(403), Num(404)},
        ef \in {NoErrorField, ErrorField(Undefined), ErrorField(Str(""))}
                 \cup {ErrorField(Str(c)) : c \in {"ENOTFOUND", "ECONNREFUSED", "EMADEUP"}}}

\* What the transport rejects with when it is no object: undefined, null,
\* or a string, which has none of the properties the client reads.
RawValues ==
    {[NoError EXCEPT !.t = t, !.id = "raw"] : t \in {"undefined", "null", "string"}}

(***************************************************************************)
(* State.                                                                  *)
(***************************************************************************)
VARIABLES
    client,     \* the client instance, NoClient until one is constructed
    call,       \* the operation in progress or last completed, and its result
    other,      \* a second call on the same client, set aside while call runs
    now         \* the clock: Date.now(), in milliseconds

vars == <<client, call, other, now>>

UndefinedValue == [t |-> "undefined", json |-> JNum(0), body |-> NoBody, s |-> <<>>]

JSONValue(v) == [UndefinedValue EXCEPT !.t = "json", !.json = v]

BodyValue(b) == IF b.t = "undefined" THEN UndefinedValue
                ELSE [UndefinedValue EXCEPT !.t = "body", !.body = b]

TextValue(sv) == IF sv.t = "undefined" THEN UndefinedValue
                 ELSE [UndefinedValue EXCEPT !.t = "string", !.s = sv.s]

NoSource == [known |-> FALSE, key |-> 0, data |-> JNum(0), intact |-> FALSE]

\* The same call made a second time: the vector drawn and the ciphertext.
NotAgain == [done |-> FALSE, iv |-> 0, s |-> UndefinedString]

\* generated: the access tokens generated during the call, in order.
\* transportCalls: how many times the call has invoked request.get or
\* request.post.
\* pc: "idle"; "pending" (request dispatched); "transportResolved",
\* "transportRejected" (transport settled, callbacks not yet run);
\* "resolved", "rejected" (the promise of the call settled); "returned",
\* "threw" (a synchronous operation completed).
IdleCall ==
    [pc |-> "idle", op |-> "none",
     args |-> [serviceToken |-> 0, url |-> <<>>, serviceSlug |-> "",
               userId |-> Undefined, submissionId |-> Undefined,
               userToken |-> 0, data |-> JNum(0), iv |-> 0, payload |-> EmptyPayload,
               encryptedData |-> UndefinedString, err |-> NoError],
     src |-> NoSource, again |-> NotAgain,
     generated |-> <<>>, transportCalls |-> 0,
     request |-> NoRequest, body |-> NoBody, raw |-> NoError,
     value |-> UndefinedValue, error |-> NoError]

Completed == {"returned", "threw", "resolved", "rejected"}

Init ==
    /\ client = NoClient
    /\ call = IdleCall
    /\ other = IdleCall
    /\ now = 0

\* Time passes.
Tick ==
    /\ now + 500 <= 1000 * MaxTime
    /\ now' = now + 500
    /\ UNCHANGED <<client, call, other>>

(***************************************************************************)
(* Construction.                                                           *)
(***************************************************************************)
Construct(cls, serviceToken, url, serviceSlug) ==
    /\ ~client.constructed
    /\ call.pc = "idle"
    /\ LET new == CASE cls = "FBJWTClient" -> FBJWTClient(serviceToken, NoClass)
                    [] cls = "FBUserDataStoreClient" ->
                           FBUserDataStoreClient(serviceToken, url, serviceSlug)
                    [] cls = "FBSubmitterClient" ->
                           FBSubmitterClient(serviceToken, url, serviceSlug)
           started == [IdleCall EXCEPT !.op = cls,
                                       !.args.serviceToken = serviceToken,
                                       !.args.url = url,
                                       !.args.serviceSlug = serviceSlug]
       IN IF new.thrown
          THEN /\ call' = [started EXCEPT !.pc = "threw", !.error = new.error]
               /\ UNCHANGED client
          ELSE /\ call' = [started EXCEPT !.pc = "returned"]
               /\ client' = new.this
    /\ UNCHANGED <<now, other>>

(***************************************************************************)
(* The synchronous part of a call: the request is built and handed to the  *)
(* transport, or building it throws.                                       *)
(***************************************************************************)
\* request.get(options) / request.post(options) after createRequestOptions.
Dispatch(started, method, built) ==
    IF built.thrown
    THEN [started EXCEPT !.pc = "threw", !.error = built.error,
                         !.generated = built.generated]
    ELSE [started EXCEPT !.pc = "pending",
                         !.generated = built.generated,
                         !.transportCalls = started.transportCalls + 1,
                         !.request = [built.options EXCEPT !.sent = TRUE,
                                                           !.method = method]]

\* The client is an instance of one of the three classes.
IsInstance ==
    client.constructed
        /\ client.cls \in {"FBJWTClient", "FBUserDataStoreClient", "FBSubmitterClient"}

\* One operation at a time: the next one starts when the last is done with.
Ready == IsInstance /\ call.pc = "idle"

\* sendGet(urlPattern, urlKeys) called directly.
SendGet(urlPattern, urlKeys) ==
    /\ Ready
    /\ call' = Dispatch([IdleCall EXCEPT !.op = "sendGet", !.args.url = urlPattern], "GET",
                        createRequestOptions(client, urlPattern, urlKeys, EmptyPayload, now))
    /\ UNCHANGED <<client, now, other>>

\* sendPost(urlPattern, urlKeys, payload) called directly.
SendPost(urlPattern, urlKeys, payload) ==
    /\ Ready
    /\ call' = Dispatch([IdleCall EXCEPT !.op = "sendPost", !.args.url = urlPattern,
                                         !.args.payload = payload], "POST",
                        createRequestOptions(client, urlPattern, urlKeys, payload, now))
    /\ UNCHANGED <<client, now, other>>

\* getData that keeps the user token of the call on the instance, in the
\* place of the service token.
GetData_StoresOnInstance(userId, userToken) ==
    /\ Ready
    /\ client.cls = "FBUserDataStoreClient"
    /\ LET urlPattern == client.endpoints.get
           serviceSlug == client.serviceSlug
           started == [IdleCall EXCEPT !.op = "getData", !.args.userId = userId,
                                       !.args.userToken = userToken]
       IN call' = Dispatch(started, "GET",
                           createRequestOptions(client, urlPattern,
                               [serviceSlug |-> Str(serviceSlug), userId |-> userId],
                               EmptyPayload, now))
    /\ client' = [client EXCEPT !.serviceToken = userToken]
    /\ UNCHANGED <<now, other>>

\* getData(userId, userToken), up to the dispatch of its GET.
GetData(userId, userToken) ==
    /\ Ready
    /\ client.cls = "FBUserDataStoreClient"
    /\ LET urlPattern == client.endpoints.get
           serviceSlug == client.serviceSlug
           started == [IdleCall EXCEPT !.op = "getData", !.args.userId = userId,
                                       !.args.userToken = userToken]
       IN call' = Dispatch(started, "GET",
                           createRequestOptions(client, urlPattern,
                               [serviceSlug |-> Str(serviceSlug), userId |-> userId],
                               EmptyPayload, now))
    /\ UNCHANGED <<client, now, other>>

\* setData that encrypts the payload under the service token.
SetData_UnderServiceToken(userId, userToken, payload, iv) ==
    /\ Ready
    /\ client.cls = "FBUserDataStoreClient"
    /\ LET urlPattern == client.endpoints.set
           serviceSlug == client.serviceSlug
           encryptedPayload == encrypt(client, client.serviceToken, payload, iv)
           started == [IdleCall EXCEPT !.op = "setData", !.args.userId = userId,
                                       !.args.userToken = userToken,
                                       !.args.data = payload,
                                       !.args.payload =
                                           [EmptyPayload EXCEPT
                                               !.keys = {"payload"},
                                               !.payload = encryptedPayload.s]]
       IN call' = IF encryptedPayload.thrown
                  THEN [started EXCEPT !.pc = "threw", !.error = encryptedPayload.error]
                  ELSE Dispatch(started, "POST",
                           createRequestOptions(client, urlPattern,
                               [serviceSlug |-> Str(serviceSlug), userId |-> userId],
                               [EmptyPayload EXCEPT !.keys = {"payload"},
                                                    !.payload = encryptedPayload.s],
                               now))
    /\ UNCHANGED <<client, now, other>>

\* setData(userId, userToken, payload), up to the dispatch of its POST; iv
\* is the random vector of the encryption.
SetData(userId, userToken, payload, iv) ==
    /\ Ready
    /\ client.cls = "FBUserDataStoreClient"
    /\ LET urlPattern == client.endpoints.set
           serviceSlug == client.serviceSlug
           encryptedPayload == encrypt(client, userToken, payload, iv)
           started == [IdleCall EXCEPT !.op = "setData", !.args.userId = userId,
                                       !.args.userToken = userToken,
                                       !.args.data = payload,
                                       !.args.payload =
                                           [EmptyPayload EXCEPT
                                               !.keys = {"payload"},
                                               !.payload = encryptedPayload.s]]
       IN call' = IF encryptedPayload.thrown
                  THEN [started EXCEPT !.pc = "threw", !.error = encryptedPayload.error]
                  ELSE Dispatch(started, "POST",
                           createRequestOptions(client, urlPattern,
                               [serviceSlug |-> Str(serviceSlug), userId |-> userId],
                               [EmptyPayload EXCEPT !.keys = {"payload"},
                                                    !.payload = encryptedPayload.s],
                               now))
    /\ UNCHANGED <<client, now, other>>

\* getStatus(submissionId), up to the dispatch of its GET.
GetStatus(submissionId) ==
    /\ Ready
    /\ client.cls = "FBSubmitterClient"
    /\ LET urlPattern == client.endpoints.getStatus
           started == [IdleCall EXCEPT !.op = "getStatus",
                                       !.args.submissionId = submissionId]
       IN call' = Dispatch(started, "GET",
                           createRequestOptions(client, urlPattern,
                               [submissionId |-> submissionId], EmptyPayload, now))
    /\ UNCHANGED <<client, now, other>>

\* A token as it is written in a JSON text or in a URL: a text no user
\* id and no value of JSONValues contains.
TokenJSON(token) == JNum(30 + token)

\* encryptUserIdAndToken that takes the user token for the key.
encryptUserIdAndToken_UnderUserToken(this, userId, userToken, iv) ==
    encrypt(this, userToken, JArr(<<JNum(userId.n), TokenJSON(userToken)>>), iv)

\* encryptUserIdAndToken that serializes the bundle and does not encrypt it.
encryptUserIdAndToken_Plain(this, userId, userToken, iv) ==
    [thrown |-> FALSE, error |-> NoError,
     s |-> StringValue(JSONStringify(JArr(<<JNum(userId.n), TokenJSON(userToken)>>)))]

\* encryptUserIdAndToken(userId, userToken): {userId, userToken}, written
\* as the JSON value of the pair, encrypted under the service token.
encryptUserIdAndToken(this, userId, userToken, iv) ==
    LET serviceToken == this.serviceToken
    IN encrypt(this, serviceToken, JArr(<<JNum(userId.n), TokenJSON(userToken)>>), iv)

\* submit(userId, userToken, submissions), up to the dispatch of its POST.
Submit(userId, userToken, submissions, iv) ==
    /\ Ready
    /\ client.cls = "FBSubmitterClient"
    /\ LET urlPattern == client.endpoints.submit
           service_slug == client.serviceSlug
           encrypted_user_id_and_token == encryptUserIdAndToken(client, userId, userToken, iv)
           instructions ==
               [EmptyPayload EXCEPT
                   !.keys = {"service_slug", "encrypted_user_id_and_token", "submissions"},
                   !.service_slug = service_slug,
                   !.encrypted_user_id_and_token = encrypted_user_id_and_token.s,
                   !.submissions = submissions]
           started == [IdleCall EXCEPT !.op = "submit", !.args.userId = userId,
                                       !.args.userToken = userToken,
                                       !.args.data = submissions,
                                       !.args.payload = instructions]
       IN call' = IF encrypted_user_id_and_token.thrown
                  THEN [started EXCEPT !.pc = "threw",
                                       !.error = encrypted_user_id_and_token.error]
                  ELSE Dispatch(started, "POST",
                           createRequestOptions(client, urlPattern, NoKeys,
                                                instructions, now))
    /\ UNCHANGED <<client, now, other>>

(***************************************************************************)
(* The transport settles the request.                                      *)
(***************************************************************************)
\* The bodies a request can be answered with.
Bodies(op) ==
    IF op = "external.get"
    THEN {NullBody, EmptyObjectBody, TextBody}
           \cup {PayloadBody(s) : s \in StoredPayloads}
    ELSE IF op = "getData"
    THEN {NoBody, NullBody, EmptyObjectBody}
           \cup {PayloadBody(s) : s \in StoredPayloads}
           \cup {PayloadBody(s) : s \in Corruptions(StringValue(<<"A", "B">>))}
    ELSE {NoBody, StatusBody(JNum(1)), PayloadBody(StringValue(<<"A", "B">>))}

TransportResolve(body) ==
    /\ call.pc = "pending"
    /\ call' = [call EXCEPT !.pc = "transportResolved", !.body = body]
    /\ UNCHANGED <<client, now, other>>

TransportReject(e) ==
    /\ call.pc = "pending"
    /\ call' = [call EXCEPT !.pc = "transportRejected", !.raw = e]
    /\ UNCHANGED <<client, now, other>>

(***************************************************************************)
(* The promise callbacks of the client.                                    *)
(***************************************************************************)
\* A catch callback that sends the request once more before it gives up.
Catch_Retrying ==
    /\ call.pc = "transportRejected"
    /\ call.op \notin {"external.get", "external.set"}
    /\ call' = IF call.transportCalls < 2
               THEN [call EXCEPT !.pc = "pending", !.raw = NoError,
                                 !.transportCalls = call.transportCalls + 1]
               ELSE [call EXCEPT !.pc = "rejected",
                                 !.error = handleRequestError(client, call.raw)]
    /\ UNCHANGED <<client, now, other>>

\* .catch(e => client.handleRequestError(e)) of sendGet and sendPost; the
\* .then callbacks of the domain clients are passed over by a rejection.
Catch ==
    /\ call.pc = "transportRejected"
    /\ call.op \notin {"external.get", "external.set"}
    /\ call' = [call EXCEPT !.pc = "rejected",
                            !.error = handleRequestError(client, call.raw)]
    /\ UNCHANGED <<client, now, other>>

\* getStatus treating the body as getData does: it decrypts its payload.
PassThrough_Decrypting ==
    /\ call.pc = "transportResolved"
    /\ call.op \in {"sendGet", "sendPost", "getStatus"}
    /\ LET decrypted == decrypt(client, client.serviceToken, call.body.payload)
       IN call' = IF call.op # "getStatus"
                  THEN [call EXCEPT !.pc = "resolved", !.value = BodyValue(call.body)]
                  ELSE IF decrypted.thrown
                  THEN [call EXCEPT !.pc = "rejected", !.error = decrypted.error]
                  ELSE [call EXCEPT !.pc = "resolved", !.value = JSONValue(decrypted.v)]
    /\ UNCHANGED <<client, now, other>>

\* sendGet, sendPost and getStatus resolve with the body as it is.
PassThrough ==
    /\ call.pc = "transportResolved"
    /\ call.op \in {"sendGet", "sendPost", "getStatus"}
    /\ call' = [call EXCEPT !.pc = "resolved", !.value = BodyValue(call.body)]
    /\ UNCHANGED <<client, now, other>>

\* The .then callback of getData decrypting under the service token.
GetDataThen_UnderServiceToken ==
    /\ call.pc = "transportResolved"
    /\ call.op = "getData"
    /\ LET json == call.body
           payload == json.payload
           decrypted == decrypt(client, client.serviceToken, payload)
       IN call' = IF json.t \in {"undefined", "null"}
                  THEN [call EXCEPT !.pc = "rejected", !.error = NewTypeError]
                  ELSE IF decrypted.thrown
                  THEN [call EXCEPT !.pc = "rejected", !.error = decrypted.error]
                  ELSE [call EXCEPT !.pc = "resolved", !.value = JSONValue(decrypted.v)]
    /\ UNCHANGED <<client, now, other>>

\* getData's .then(json => { const {payload} = json; return
\* this.decrypt(userToken, payload) })
GetDataThen ==
    /\ call.pc = "transportResolved"
    /\ call.op = "getData"
    /\ LET json == call.body
           payload == json.payload
           decrypted == decrypt(client, call.args.userToken, payload)
       IN call' = IF json.t \in {"undefined", "null"}
                  THEN [call EXCEPT !.pc = "rejected", !.error = NewTypeError]
                  ELSE IF decrypted.thrown
                  THEN [call EXCEPT !.pc = "rejected", !.error = decrypted.error]
                  ELSE [call EXCEPT !.pc = "resolved", !.value = JSONValue(decrypted.v)]
    /\ UNCHANGED <<client, now, other>>

\* A .then callback that returns a promise which never settles.
DiscardBody_Hanging ==
    /\ call.pc = "transportResolved"
    /\ call.op \in {"setData", "submit"}
    /\ call' = call
    /\ UNCHANGED <<client, now, other>>

\* .then(() => {}) of setData and submit
DiscardBody ==
    /\ call.pc = "transportResolved"
    /\ call.op \in {"setData", "submit"}
    /\ call' = [call EXCEPT !.pc = "resolved", !.value = UndefinedValue]
    /\ UNCHANGED <<client, now, other>>

(***************************************************************************)
(* Methods of the client called directly.                                  *)
(***************************************************************************)
\* generateAccessToken(payload) called directly.
GenerateAccessToken(payload) ==
    /\ Ready
    /\ call' = [IdleCall EXCEPT !.op = "generateAccessToken", !.args.payload = payload,
                                !.pc = "returned",
                                !.generated = <<generateAccessToken(client, payload, now)>>]
    /\ UNCHANGED <<client, now, other>>

\* encrypt(token, data)
Encrypt(token, data, iv) ==
    /\ Ready
    /\ LET encryptedData == encrypt(client, token, data, iv)
           started == [IdleCall EXCEPT !.op = "encrypt", !.args.userToken = token,
                                       !.args.data = data, !.args.iv = iv]
       IN call' = IF encryptedData.thrown
                  THEN [started EXCEPT !.pc = "threw", !.error = encryptedData.error]
                  ELSE [started EXCEPT !.pc = "returned",
                                       !.value = TextValue(encryptedData.s)]
    /\ UNCHANGED <<client, now, other>>

\* The caller calls encrypt(token, data) once more with the arguments of
\* the call that has just returned; aes256 draws the vector iv this time.
\* crypto.randomBytes(16) is taken not to give the same 16 bytes twice: the
\* vector is another one than that of the first call.
EncryptAgain(iv) ==
    /\ call.op = "encrypt" /\ call.pc = "returned" /\ ~call.again.done
    /\ iv # call.args.iv
    /\ LET encryptedData == encrypt(client, call.args.userToken, call.args.data, iv)
       IN call' = [call EXCEPT !.again = [done |-> TRUE, iv |-> iv,
                                          s |-> encryptedData.s]]
    /\ UNCHANGED <<client, now, other>>

\* decrypt(token, encryptedData); src tells where encryptedData comes from.
Decrypt(token, encryptedData, src) ==
    /\ IsInstance
    /\ LET data == decrypt(client, token, encryptedData)
           started == [IdleCall EXCEPT !.op = "decrypt", !.args.userToken = token,
                                       !.args.encryptedData = encryptedData,
                                       !.src = src]
       IN call' = IF data.thrown
                  THEN [started EXCEPT !.pc = "threw", !.error = data.error]
                  ELSE [started EXCEPT !.pc = "returned", !.value = JSONValue(data.v)]
    /\ UNCHANGED <<client, now, other>>

\* The caller decrypts what encrypt has just returned.
DecryptEncrypted(token) ==
    /\ call.op = "encrypt" /\ call.pc = "returned"
    /\ Decrypt(token, StringValue(call.value.s),
               [known |-> TRUE, key |-> call.args.userToken,
                data |-> call.args.data, intact |-> TRUE])

\* The caller decrypts a corrupted copy of what encrypt has just returned.
DecryptCorrupted(token) ==
    /\ call.op = "encrypt" /\ call.pc = "returned"
    /\ \E encryptedData \in Corruptions(StringValue(call.value.s)) :
           Decrypt(token, encryptedData,
                   [known |-> TRUE, key |-> call.args.userToken,
                    data |-> call.args.data, intact |-> FALSE])

\* The caller decrypts something that is no ciphertext: decrypt(K, 'invalid').
DecryptInvalid(token) ==
    /\ call.pc = "idle"
    /\ \E encryptedData \in {StringValue(<<"A">>), StringValue(<<"!", "!">>), UndefinedString} :
           Decrypt(token, encryptedData, NoSource)

\* An error object made by the caller with the client's error class:
\* new client.ErrorClass('Boom', {error: {code: 'EBOOM'}}), with or without
\* the fields of a transport error set on it.
OwnErrors ==
    {[NewError(client.ErrorClass, Str("Boom"), Str("EBOOM")) EXCEPT
         !.id = "ext", !.statusCode = sc, !.error = ef] :
        sc \in {Undefined, Num(404)},
        ef \in {NoErrorField, ErrorField(Str("ECONNREFUSED"))}}

\* Objects that are no errors of the client's class and have the name of
\* it: a plain object the transport rejected with, {name, statusCode} or
\* {name, error: {code}}.
NamesakeErrors ==
    {[NoError EXCEPT !.t = "object", !.id = "ext", !.name = Str(client.ErrorClass.name),
                     !.statusCode = sc, !.error = ef] :
        sc \in {Undefined, Num(404)},
        ef \in {NoErrorField, ErrorField(Str("ECONNREFUSED"))}}

\* An error made by another instance of the client's class: each instance
\* of a domain client declares an error class of its own, under one name.
ForeignErrors ==
    IF client.ErrorClass.owner = 0 THEN {}
    ELSE {[NewError([client.ErrorClass EXCEPT !.owner = client.ErrorClass.owner + 1],
                    Str("Boom"), Str("EBOOM")) EXCEPT
              !.id = "ext", !.statusCode = Num(404)]}

\* handleRequestError(err) called directly.
HandleRequestError(err) ==
    /\ Ready
    /\ call' = [IdleCall EXCEPT !.op = "handleRequestError", !.args.err = err,
                                !.pc = "threw",
                                !.error = handleRequestError(client, err)]
    /\ UNCHANGED <<client, now, other>>

\* The caller is done with the result of the last operation.
Done ==
    /\ call.pc \in Completed
    /\ call' = IdleCall
    /\ UNCHANGED <<client, now, other>>

(***************************************************************************)
(* The earlier user datastore client, a module with the functions of the   *)
(* object external and module-level variables set by external.init.  The   *)
(* variable client holds the module's state, cls "external".               *)
(***************************************************************************)
external_FBUserDataStoreClientError == [name |-> "FBUserDataStoreClientError", owner |-> 0]

\* throwRequestError(code, message) of the module
external_throwRequestError(code, message) ==
    NewError(external_FBUserDataStoreClientError, OrElse(message, code), code)

\* '/service/{serviceSlug}/user/{userId}.json'
external_endpointUrlTemplate ==
    <<Lit("/service/"), Param("serviceSlug"), Lit("/user/"), Param("userId"), Lit(".json")>>

\* url.replace(/\{name\}/, value): the placeholder gives way to the value
\* as it is, not encoded.
external_replace(url, name, value) ==
    [i \in 1..Len(url) |->
        IF url[i] = Param(name)
        THEN Lit(IF value.t = "number" THEN ToString(value.n) ELSE value.s)
        ELSE url[i]]

\* external.generateAccessToken without the test of the service token.
external_generateAccessToken_Unchecked(serviceToken, payload, time) ==
    [thrown |-> FALSE, error |-> NoError,
     token |-> JwtSign([EmptyPayload EXCEPT !.keys = {"payload"}, !.payload = payload],
                       serviceToken, algorithm, time)]

\* external.generateAccessToken(payload): the token signs {payload}.
external_generateAccessToken(serviceToken, payload, time) ==
    IF serviceToken = 0
    THEN [thrown |-> TRUE,
          error |-> external_throwRequestError(Str("ENOSERVICETOKEN"),
                        Str("No service token passed to user datastore client")),
          token |-> NoRequest.headers.xAccessToken]
    ELSE [thrown |-> FALSE, error |-> NoError,
          token |-> JwtSign([EmptyPayload EXCEPT !.keys = {"payload"}, !.payload = payload],
                            serviceToken, algorithm, time)]

\* external.decryptPayload(encryptedPayload, userToken): what aes256.decrypt
\* or JSON.parse throws is caught and dropped, and payload stays undefined.
external_decryptPayload(encryptedPayload, userToken) ==
    LET payload == Aes256Decrypt(userToken, encryptedPayload)
        parsed == JSONParse(payload.s)
    IN IF payload.ok /\ parsed.ok THEN JSONValue(parsed.v) ELSE UndefinedValue

\* handleRequestError(err) of the module: it has no test for its own errors.
external_handleRequestError(err) ==
    IF err.t \in {"undefined", "null"} THEN NewTypeError
    ELSE IF Truthy(err.statusCode)
         THEN IF err.statusCode = Num(404)
              THEN external_throwRequestError(Num(404), Undefined)
              ELSE external_throwRequestError(err.statusCode, Undefined)
    ELSE IF err.error.present
         THEN LET code == OrElse(err.error.code, Str("EUNSPECIFIED"))
                  statusCode == IF code = Str("ENOTFOUND") THEN 502
                                ELSE IF code = Str("ECONNREFUSED") THEN 503
                                ELSE 500
              IN external_throwRequestError(Num(statusCode), code)
    ELSE external_throwRequestError(Num(500), Str("ENOERROR"))

\* The module is loaded and no instance of a class stands in its place.
IsModule == client.cls \in {"none", "external"}

\* let serviceToken: undefined until external.init sets it.
external_serviceToken == IF client.cls = "external" THEN client.serviceToken ELSE 0

\* const endpoints = {get, set}: the templates, until external.init assigns
\* to its fields.
external_endpoints ==
    IF client.cls = "external" THEN client.endpoints
    ELSE [get |-> external_endpointUrlTemplate, set |-> external_endpointUrlTemplate]

\* external.init(serviceSlug, sToken, userDataStoreUrl); nothing is checked,
\* and each endpoint is made from the value the endpoint has at the time.
ExternalInit(serviceSlug, sToken, userDataStoreUrl) ==
    /\ IsModule
    /\ call.pc = "idle"
    /\ client.inits < MaxInits
    /\ LET setEndpoint(url) ==
               userDataStoreUrl \o external_replace(url, "serviceSlug", Str(serviceSlug))
       IN client' = [NoClient EXCEPT
                        !.constructed = TRUE, !.cls = "external",
                        !.ErrorClass = external_FBUserDataStoreClientError,
                        !.serviceToken = sToken, !.serviceSlug = serviceSlug,
                        !.inits = client.inits + 1,
                        !.endpoints = [get |-> setEndpoint(external_endpoints.get),
                                       set |-> setEndpoint(external_endpoints.set)]]
    /\ call' = [IdleCall EXCEPT !.op = "external.init", !.pc = "returned",
                                !.args.serviceToken = sToken,
                                !.args.url = userDataStoreUrl,
                                !.args.serviceSlug = serviceSlug]
    /\ UNCHANGED <<now, other>>

\* external.generateAccessToken(payload) called directly.
ExternalGenerateAccessToken(payload) ==
    /\ IsModule
    /\ call.pc = "idle"
    /\ LET accessToken == external_generateAccessToken(external_serviceToken, payload, now)
           started == [IdleCall EXCEPT !.op = "external.generateAccessToken"]
       IN call' = IF accessToken.thrown
                  THEN [started EXCEPT !.pc = "threw", !.error = accessToken.error]
                  ELSE [started EXCEPT !.pc = "returned",
                                       !.generated = <<accessToken.token>>]
    /\ UNCHANGED <<client, now, other>>

\* external.get(userId, userToken), up to request.get: an async function,
\* so what its body throws rejects the promise it returns.  The request
\* has no json option.
ExternalGet(userId, userToken, iv) ==
    /\ IsModule
    /\ call.pc = "idle"
    /\ LET encryptedPayload == encrypt(client, userToken, JArr(<<>>), iv)
           accessToken == external_generateAccessToken(external_serviceToken,
                                                       encryptedPayload.s, now)
           url == external_replace(external_endpoints.get, "userId", userId)
           started == [IdleCall EXCEPT !.op = "external.get", !.args.userId = userId,
                                       !.args.userToken = userToken]
       IN call' = IF encryptedPayload.thrown
                  THEN [started EXCEPT !.pc = "rejected", !.error = encryptedPayload.error]
                  ELSE IF accessToken.thrown
                  THEN [started EXCEPT !.pc = "rejected", !.error = accessToken.error]
                  ELSE [started EXCEPT
                           !.pc = "pending",
                           !.generated = <<accessToken.token>>,
                           !.transportCalls = 1,
                           !.request = [NoRequest EXCEPT
                                           !.sent = TRUE, !.method = "GET", !.url = url,
                                           !.headers = [xAccessToken |-> accessToken.token],
                                           !.json = [isTrue |-> FALSE, body |-> EmptyPayload]]]
    /\ UNCHANGED <<client, now, other>>

\* external.set(userId, userToken, payload), up to request.post: not an
\* async function, so what its body throws is thrown to the caller.  The
\* request has the form option {payload: encryptedPayload} and no json option.
ExternalSet(userId, userToken, payload, iv) ==
    /\ IsModule
    /\ call.pc = "idle"
    /\ LET encryptedPayload == encrypt(client, userToken, payload, iv)
           accessToken == external_generateAccessToken(external_serviceToken,
                                                       encryptedPayload.s, now)
           url == external_replace(external_endpoints.set, "userId", userId)
           started == [IdleCall EXCEPT !.op = "external.set", !.args.userId = userId,
                                       !.args.userToken = userToken,
                                       !.args.data = payload]
       IN call' = IF encryptedPayload.thrown
                  THEN [started EXCEPT !.pc = "threw", !.error = encryptedPayload.error]
                  ELSE IF accessToken.thrown
                  THEN [started EXCEPT !.pc = "threw", !.error = accessToken.error]
                  ELSE [started EXCEPT
                           !.pc = "pending",
                           !.generated = <<accessToken.token>>,
                           !.transportCalls = 1,
                           !.request = [NoRequest EXCEPT
                                           !.sent = TRUE, !.method = "POST", !.url = url,
                                           !.headers = [xAccessToken |-> accessToken.token],
                                           !.json = [isTrue |-> FALSE, body |-> EmptyPayload],
                                           !.form = [EmptyPayload EXCEPT
                                                        !.keys = {"payload"},
                                                        !.payload = encryptedPayload.s]]]
    /\ UNCHANGED <<client, now, other>>

\* .then(body => { const {payload} = body; return
\* external.decryptPayload(payload, userToken) }) followed by
\* .catch(handleRequestError), for a request the transport resolved.
ExternalGetThen ==
    /\ call.pc = "transportResolved"
    /\ call.op = "external.get"
    /\ LET body == call.body
           payload == body.payload
       IN call' = IF body.t \in {"undefined", "null"}
                  THEN [call EXCEPT !.pc = "rejected",
                                    !.error = external_handleRequestError(NewTypeError)]
                  ELSE [call EXCEPT !.pc = "resolved",
                                    !.value = external_decryptPayload(payload,
                                                                      call.args.userToken)]
    /\ UNCHANGED <<client, now, other>>

\* .then(() => {}) of external.set
ExternalSetThen ==
    /\ call.pc = "transportResolved"
    /\ call.op = "external.set"
    /\ call' = [call EXCEPT !.pc = "resolved", !.value = UndefinedValue]
    /\ UNCHANGED <<client, now, other>>

\* .catch(handleRequestError), for a request the transport rejected.
ExternalCatch ==
    /\ call.pc = "transportRejected"
    /\ call.op \in {"external.get", "external.set"}
    /\ call' = [call EXCEPT !.pc = "rejected",
                            !.error = external_handleRequestError(call.raw)]
    /\ UNCHANGED <<client, now, other>>

\* The configurations external.init is called with: service slug, service
\* token, base URL.
ExternalConfigs ==
    {<<"slug", 0, BaseUrl>>, <<"slug", 1, BaseUrl>>,
     <<"other", 1, <<Lit("https://elsewhere")>>>>}

(***************************************************************************)
(* The specification.                                                      *)
(***************************************************************************)
Next ==
    \/ Tick
    \/ \E cls \in {"FBJWTClient", "FBUserDataStoreClient", "FBSubmitterClient"},
          serviceToken \in {0, 1}, url \in {<<>>, BaseUrl, PortUrl}, serviceSlug \in {"", "slug"} :
           Construct(cls, serviceToken, url, serviceSlug)
    \/ \E urlPattern \in SendPatterns, urlKeys \in SendKeys : SendGet(urlPattern, urlKeys)
    \/ \E urlPattern \in SendPatterns, urlKeys \in SendKeys, payload \in SendPayloads :
           SendPost(urlPattern, urlKeys, payload)
    \/ \E userId \in UserIds, userToken \in Keys : GetData(userId, userToken)
    \/ \E userId \in UserIds, userToken \in Keys, payload \in JSONValues, iv \in IVs :
           SetData(userId, userToken, payload, iv)
    \/ \E submissionId \in SubmissionIds : GetStatus(submissionId)
    \/ \E userId \in UserIds, userToken \in Keys, submissions \in JSONValues, iv \in IVs :
           Submit(userId, userToken, submissions, iv)
    \/ \E body \in Bodies(call.op) : TransportResolve(body)
    \/ \E e \in RawErrors \cup RawValues : TransportReject(e)
    \/ Catch
    \/ PassThrough
    \/ GetDataThen
    \/ DiscardBody
    \/ \E payload \in SendPayloads : GenerateAccessToken(payload)
    \/ \E token \in Keys, data \in JSONValues, iv \in IVs : Encrypt(token, data, iv)
    \/ \E iv \in IVs : EncryptAgain(iv)
    \/ \E token \in Keys : DecryptEncrypted(token)
    \/ \E token \in Keys : DecryptCorrupted(token)
    \/ \E token \in Keys : DecryptInvalid(token)
    \/ \E err \in OwnErrors \cup NamesakeErrors \cup ForeignErrors
                        \cup {[e EXCEPT !.id = "ext"] : e \in RawErrors} :
           HandleRequestError(err)
    \/ \E cfg \in ExternalConfigs : ExternalInit(cfg[1], cfg[2], cfg[3])
    \/ ExternalGenerateAccessToken(StringValue(<<"A", "B">>))
    \/ \E userId \in UserIds, userToken \in Keys, iv \in IVs : ExternalGet(userId, userToken, iv)
    \/ \E userId \in UserIds, userToken \in Keys, iv \in IVs :
           ExternalSet(userId, userToken, JNum(23), iv)
    \/ ExternalGetThen
    \/ ExternalSetThen
    \/ ExternalCatch
    \/ Done

Spec == Init /\ [][Next]_vars

(***************************************************************************)
(* Two calls in flight on one client.  JavaScript runs one callback at a   *)
(* time: between two steps of one call the event loop may run steps of     *)
(* the other.                                                              *)
(***************************************************************************)
\* The event loop turns to the other call.
Switch ==
    /\ client.constructed
    /\ call # other
    /\ call' = other
    /\ other' = call
    /\ UNCHANGED <<client, now>>

\* The user tokens of the two calls: the service token's key and another.
ConcurrentKeys == {1, 2}

\* The bodies and the errors the transport answers with here.
ConcurrentBodies(op) ==
    IF op = "getData"
    THEN {EmptyObjectBody}
           \cup {PayloadBody(StringValue(Aes256Encrypt(k, 0, StringValue(JSONStringify(JNum(23)))).s)) :
                    k \in ConcurrentKeys}
    ELSE {NoBody, StatusBody(JNum(1))}

ConcurrentErrors ==
    {e \in RawErrors : \/ e.statusCode = Num(404) /\ ~e.error.present
                       \/ e.statusCode = Undefined /\ e.error = ErrorField(Str("ECONNREFUSED"))}

ConcurrentNext ==
    \/ Switch
    \/ Tick
    \/ \E cls \in {"FBJWTClient", "FBUserDataStoreClient", "FBSubmitterClient"} :
           Construct(cls, 1, BaseUrl, "slug")
    \/ SendGet(<<Lit("/url")>>, NoKeys)
    \/ SendPost(<<Lit("/url")>>, NoKeys, [EmptyPayload EXCEPT !.keys = {"foo"}, !.foo = JNum(1)])
    \/ \E userId \in UserIds, userToken \in ConcurrentKeys : GetData(userId, userToken)
    \/ \E userId \in UserIds, userToken \in ConcurrentKeys : SetData(userId, userToken, JNum(23), 0)
    \/ \E submissionId \in SubmissionIds : GetStatus(submissionId)
    \/ \E userId \in UserIds, userToken \in ConcurrentKeys : Submit(userId, userToken, JArr(<<>>), 0)
    \/ \E body \in ConcurrentBodies(call.op) : TransportResolve(body)
    \/ \E e \in ConcurrentErrors : TransportReject(e)
    \/ Catch
    \/ PassThrough
    \/ GetDataThen
    \/ DiscardBody
    \/ \E token \in ConcurrentKeys : Encrypt(token, JNum(23), 0)
    \/ \E token \in ConcurrentKeys : DecryptEncrypted(token)
    \/ Done

ConcurrentSpec == Init /\ [][ConcurrentNext]_vars

(***************************************************************************)
(* The progress of a call.  Once the promise of the transport settles, the *)
(* event loop runs the callbacks attached to it: a callback that is ready  *)
(* is not put off forever.  Nothing makes the transport settle.            *)
(***************************************************************************)
LiveNext ==
    \/ \E cls \in {"FBJWTClient", "FBUserDataStoreClient", "FBSubmitterClient"} :
           Construct(cls, 1, BaseUrl, "slug")
    \/ SendGet(<<Lit("/url")>>, NoKeys)
    \/ SendPost(<<Lit("/url")>>, NoKeys, [EmptyPayload EXCEPT !.keys = {"foo"}, !.foo = JNum(1)])
    \/ \E userId \in UserIds, userToken \in ConcurrentKeys : GetData(userId, userToken)
    \/ \E userId \in UserIds, userToken \in ConcurrentKeys : SetData(userId, userToken, JNum(23), 0)
    \/ \E submissionId \in SubmissionIds : GetStatus(submissionId)
    \/ \E userId \in UserIds, userToken \in ConcurrentKeys : Submit(userId, userToken, JArr(<<>>), 0)
    \/ \E body \in ConcurrentBodies(call.op) \cup {NoBody} : TransportResolve(body)
    \/ \E e \in ConcurrentErrors \cup RawValues : TransportReject(e)
    \/ Catch
    \/ PassThrough
    \/ GetDataThen
    \/ DiscardBody
    \/ Done

LiveSpec ==
    /\ Init
    /\ [][LiveNext]_vars
    /\ WF_vars(Catch)
    /\ WF_vars(PassThrough)
    /\ WF_vars(GetDataThen)
    /\ WF_vars(DiscardBody)

(***************************************************************************)
(* Properties of the error handling of sendGet and sendPost.               *)
(***************************************************************************)
\* The call was rejected by the transport, with an error object or a
\* string, and the client has handled it.
TransportFailed ==
    call.pc = "rejected" /\ call.raw.id = "raw" /\ call.raw.t \notin {"undefined", "null"}

SendFailed == TransportFailed /\ call.op \in {"sendGet", "sendPost"}

IsClientError(e, code, message) ==
    /\ e.t = "object"
    /\ e.inst = client.ErrorClass
    /\ e.code = code
    /\ e.message = message

\* C1, as stated: whenever the transport rejects sendGet or sendPost with an
\* error that carries a numeric statusCode S, whatever the number, the call
\* rejects with a client error whose code and message are S.
C1_AnyNumericStatusCode ==
    (SendFailed /\ call.raw.statusCode.t = "number")
        => IsClientError(call.error, call.raw.statusCode, call.raw.statusCode)

\* C1, amended: whenever the transport rejects sendGet or sendPost with an
\* error that carries a non-zero numeric statusCode S (404, 401 and 403
\* included), the call rejects with a client error whose code and message
\* are S; 404 is mapped like every other status code.
C1_NonZeroStatusCode ==
    (SendFailed /\ call.raw.statusCode.t = "number" /\ call.raw.statusCode.n # 0)
        => IsClientError(call.error, call.raw.statusCode, call.raw.statusCode)

C1_Witness ==
    /\ SendFailed
    /\ call.raw.statusCode = Num(404)
    /\ call.error.code = Num(404)

\* C2: a transport rejection with no statusCode and a non-empty error.code C
\* gives a client error with message C and code 502 for ENOTFOUND, 503 for
\* ECONNREFUSED and 500 for every other C.
C2_ErrorCodeRows ==
    (/\ TransportFailed
     /\ call.raw.statusCode = Undefined
     /\ call.raw.error.present
     /\ call.raw.error.code.t = "string" /\ call.raw.error.code.s # "")
        => LET C == call.raw.error.code IN
           IsClientError(call.error,
                         IF C = Str("ENOTFOUND") THEN Num(502)
                         ELSE IF C = Str("ECONNREFUSED") THEN Num(503)
                         ELSE Num(500),
                         C)

C2_Witness ==
    /\ TransportFailed
    /\ call.raw.statusCode = Undefined
    /\ call.raw.error = ErrorField(Str("ENOTFOUND"))
    /\ call.error.code = Num(502)

\* C3: a transport rejection with no statusCode whose error field is present
\* with an empty or absent code gives code 500 and message EUNSPECIFIED.
C3_Unspecified ==
    (/\ TransportFailed
     /\ call.raw.statusCode = Undefined
     /\ call.raw.error.present
     /\ call.raw.error.code \in {Undefined, Str("")})
        => IsClientError(call.error, Num(500), Str("EUNSPECIFIED"))

C3_Witness ==
    /\ TransportFailed
    /\ call.raw.statusCode = Undefined
    /\ call.raw.error = ErrorField(Str(""))
    /\ call.error.message = Str("EUNSPECIFIED")

\* C4: a transport rejection with neither a statusCode nor an error field
\* gives code 500 and message ENOERROR.
C4_NoError ==
    (/\ TransportFailed
     /\ call.raw.statusCode = Undefined
     /\ ~call.raw.error.present)
        => IsClientError(call.error, Num(500), Str("ENOERROR"))

C4_Witness ==
    /\ TransportFailed
    /\ call.raw.statusCode = Undefined
    /\ ~call.raw.error.present
    /\ call.error.message = Str("ENOERROR")

\* The error a finished handleRequestError was given: the transport's
\* rejection, or the argument of a direct call.
Handled ==
    IF call.op = "handleRequestError" THEN call.args.err ELSE call.raw

HandlerRan ==
    \/ TransportFailed
    \/ call.op = "handleRequestError" /\ call.pc = "threw"

\* The rows of the decision table an error matches, in the order of the table:
\* 1 the client's own error, 2 a status code, 3 an error field, 4 no status
\* code and no error field.
RowsMatched(e) ==
    (IF e.name = Str(client.ErrorClass.name) THEN {1} ELSE {})
      \cup (IF Truthy(e.statusCode) THEN {2} ELSE {})
      \cup (IF e.error.present THEN {3} ELSE {})
      \cup (IF ~Truthy(e.statusCode) /\ ~e.error.present THEN {4} ELSE {})

FirstRow(e) == CHOOSE r \in RowsMatched(e) : \A q \in RowsMatched(e) : r <= q

\* What row r of the table makes of the error e.
RowOutcome(r, e, outcome) ==
    CASE r = 1 -> outcome = e
      [] r = 2 -> IsClientError(outcome, e.statusCode, e.statusCode)
      [] r = 3 -> /\ outcome.inst = client.ErrorClass
                  /\ outcome.message = OrElse(e.error.code, Str("EUNSPECIFIED"))
                  /\ outcome.code = IF outcome.message = Str("ENOTFOUND") THEN Num(502)
                                    ELSE IF outcome.message = Str("ECONNREFUSED") THEN Num(503)
                                    ELSE Num(500)
      [] OTHER -> IsClientError(outcome, Num(500), Str("ENOERROR"))

C6_OwnErrorRethrown ==
    (/\ call.op = "handleRequestError"
     /\ call.pc = "threw"
     /\ call.args.err.inst = client.ErrorClass)
        => /\ call.error = call.args.err
           /\ call.error.id = "ext"

C6_Witness ==
    /\ call.op = "handleRequestError"
    /\ call.pc = "threw"
    /\ call.args.err.inst = client.ErrorClass
    /\ call.args.err.statusCode = Num(404)
    /\ call.error.code = Str("EBOOM")

(***************************************************************************)
(* Properties of the domain clients.                                       *)
(***************************************************************************)
\* A client of the base class, with the default error class.
BaseClient == FBJWTClient(1, NoClass).this

\* The name of the error class a domain client declares.
DomainErrorName ==
    IF client.cls = "FBUserDataStoreClient" THEN "FBUserDataStoreClientError"
    ELSE "FBSubmitterClientError"

\* C7: every transport failure of getData, setData, getStatus or submit gives
\* the code and the message the base client gives for the same raw error,
\* under the name of the domain client's own error class and never under
\* the name of the base class.
C7_DomainErrorsAsBase ==
    (TransportFailed /\ call.op \in {"getData", "setData", "getStatus", "submit"})
        => LET base == handleRequestError(BaseClient, call.raw) IN
           /\ base.inst = FBJWTClientError
           /\ call.error.code = base.code
           /\ call.error.message = base.message
           /\ call.error.name = Str(DomainErrorName)
           /\ call.error.name # Str(FBJWTClientError.name)

C7_Witness ==
    /\ TransportFailed
    /\ call.op = "submit"
    /\ call.raw.error = ErrorField(Str("ECONNREFUSED"))
    /\ call.raw.statusCode = Undefined
    /\ call.error.code = Num(503)
    /\ call.error.name = Str("FBSubmitterClientError")

\* The code and the message of the first parameter a domain constructor
\* misses, in the declared order: service token, URL, service slug.
FirstMissing(cls, args) ==
    IF args.serviceToken = 0
    THEN <<"ENOSERVICETOKEN", "No service token passed to client">>
    ELSE IF args.url = <<>>
    THEN (IF cls = "FBUserDataStoreClient"
          THEN <<"ENOUSERDATASTOREURL", "No user datastore url passed to client">>
          ELSE <<"ENOSUBMITTERURL", "No submitter url passed to client">>)
    ELSE IF args.serviceSlug = ""
    THEN <<"ENOSERVICESLUG", "No service slug passed to client">>
    ELSE <<"", "">>

DecryptDone == call.op = "decrypt" /\ call.pc \in {"returned", "threw"}

\* C9: for every JSON value X and every non-empty key K,
\* decrypt(K, encrypt(K, X)) returns a value equal to X.
C9_RoundTrip ==
    (DecryptDone /\ call.src.known /\ call.src.intact
        /\ call.args.userToken = call.src.key)
        => /\ call.pc = "returned"
           /\ call.value = JSONValue(call.src.data)

C9_Witness ==
    /\ DecryptDone /\ call.src.known /\ call.src.intact
    /\ call.args.userToken = call.src.key
    /\ call.args.userToken # client.serviceToken
    /\ call.src.data = JArr(<<JNum(1), JNum(2)>>)
    /\ call.value = JSONValue(JArr(<<JNum(1), JNum(2)>>))

\* C10: decrypt applied to a corrupted ciphertext, or to a ciphertext made
\* under a different key, throws a client error with code 500 and message
\* EINVALIDPAYLOAD and returns no value.
C10_TamperedNeverDecrypts ==
    (DecryptDone /\ call.src.known
        /\ (~call.src.intact \/ call.args.userToken # call.src.key))
        => /\ call.pc = "threw"
           /\ IsClientError(call.error, Num(500), Str("EINVALIDPAYLOAD"))
           /\ call.value = UndefinedValue

(***************************************************************************)
(* Freshness of the initialization vector.                                 *)
(***************************************************************************)
\* encrypt(K, X) has returned twice in a row.
EncryptedTwice == call.op = "encrypt" /\ call.pc = "returned" /\ call.again.done

\* C11: for every value X and key K, two successive encrypt(K, X) calls
\* return different ciphertext strings: each call encrypts under a vector
\* of its own, drawn at random, and the ciphertext depends on the vector.
C11_SuccessiveCiphertextsDiffer ==
    EncryptedTwice => call.again.s.s # call.value.s

C11_Witness ==
    /\ EncryptedTwice
    /\ call.again.s.t = "string"
    /\ call.again.iv # call.args.iv
    /\ Len(call.again.s.s) = Len(call.value.s)

(***************************************************************************)
(* The requests and the results of the domain clients.                     *)
(***************************************************************************)
\* The call has handed a request to the transport.
Dispatched == call.pc \in {"pending", "transportResolved", "transportRejected",
                           "resolved", "rejected"}

\* The transport resolved the request and the callbacks of the call have run.
Answered == call.pc \in {"resolved", "rejected"} /\ call.raw.t = "none"

\* The URL of a user's data: the base URL, then the template with the
\* slug and the user id in the place of :serviceSlug and :userId.
UserDataUrl(serviceSlug, userId) ==
    BaseUrl \o <<Lit("/service/"), Lit(serviceSlug), Lit("/user/"),
                 Lit(IF userId.t = "number" THEN ToString(userId.n) ELSE userId.s),
                 Lit(".json")>>

\* C12: getData(userId, userToken) sends its GET to the datastore base URL
\* followed by the template with serviceSlug and userId substituted, and
\* when the transport resolves with a body whose payload decrypts under
\* userToken the call resolves to the decrypted value: to the very value
\* stored, when the payload was encrypted under userToken.
C12_GetData ==
    call.op = "getData" =>
        LET userToken == call.args.userToken
            decrypted == decrypt(client, userToken, call.body.payload)
        IN /\ Dispatched =>
                /\ call.request.method = "GET"
                /\ call.request.url = UserDataUrl(client.serviceSlug, call.args.userId)
           /\ call.pc = "resolved" =>
                /\ ~decrypted.thrown
                /\ call.value = JSONValue(decrypted.v)
                /\ \A iv \in IVs, v \in JSONValues :
                       call.body.payload.s
                           = Aes256Encrypt(userToken, iv, StringValue(JSONStringify(v))).s
                         => call.value = JSONValue(v)
           /\ (Answered /\ call.body.t = "object" /\ ~decrypted.thrown) =>
                call.pc = "resolved"

\* getData has resolved to the array a user stored under a token that is
\* not the service token.
C12_Witness ==
    /\ call.op = "getData" /\ call.pc = "resolved"
    /\ call.args.userToken # client.serviceToken
    /\ call.body.payload.s
           \in {Aes256Encrypt(call.args.userToken, iv,
                              StringValue(JSONStringify(JArr(<<JNum(1), JNum(2)>>)))).s :
                   iv \in IVs}
    /\ call.value = JSONValue(JArr(<<JNum(1), JNum(2)>>))

\* C13: setData(userId, userToken, payload) posts the body {payload: C}
\* where C is payload encrypted under userToken, and when the transport
\* resolves the call resolves to undefined whatever the body is.
C13_SetData ==
    call.op = "setData" =>
        /\ Dispatched =>
             /\ call.request.method = "POST"
             /\ call.request.url = UserDataUrl(client.serviceSlug, call.args.userId)
             /\ ~call.request.json.isTrue
             /\ call.request.json.body.keys = {"payload"}
             /\ \E iv \in IVs :
                    call.request.json.body.payload.s
                        = Aes256Encrypt(call.args.userToken, iv,
                                        StringValue(JSONStringify(call.args.data))).s
        /\ Answered => call.pc = "resolved" /\ call.value = UndefinedValue

\* setData has resolved after the datastore answered with a body, for a
\* user token that is not the service token.
C13_Witness ==
    /\ call.op = "setData" /\ call.pc = "resolved"
    /\ call.body.t = "object"
    /\ call.args.userToken # client.serviceToken
    /\ call.args.data = JArr(<<JNum(1), JNum(2)>>)

\* C14: submit(userId, userToken, submissions) posts to the submission
\* endpoint exactly the body {service_slug, encrypted_user_id_and_token,
\* submissions}: the client's slug, the {userId, userToken} bundle encrypted
\* under the service token, and the submissions as given; it resolves to
\* undefined when the transport resolves.
C14_Submit ==
    call.op = "submit" =>
        /\ Dispatched =>
             LET body == call.request.json.body
                 bundle == JArr(<<JNum(call.args.userId.n), TokenJSON(call.args.userToken)>>)
             IN /\ call.request.method = "POST"
                /\ call.request.url = BaseUrl \o <<Lit("/submission")>>
                /\ ~call.request.json.isTrue
                /\ body.keys = {"service_slug", "encrypted_user_id_and_token", "submissions"}
                /\ body.service_slug = client.serviceSlug
                /\ body.submissions = call.args.data
                /\ body.payload = UndefinedString
                /\ \E iv \in IVs :
                       body.encrypted_user_id_and_token.s
                           = Aes256Encrypt(client.serviceToken, iv,
                                           StringValue(JSONStringify(bundle))).s
        /\ Answered => call.pc = "resolved" /\ call.value = UndefinedValue

\* submit has resolved for a user token that is not the service token.
C14_Witness ==
    /\ call.op = "submit" /\ call.pc = "resolved"
    /\ call.args.userToken # client.serviceToken
    /\ call.args.data = JArr(<<JNum(1), JNum(2)>>)
    /\ call.request.json.body.submissions = JArr(<<JNum(1), JNum(2)>>)

\* C15: getStatus(submissionId) sends its GET to the status endpoint with
\* submissionId substituted and resolves to the parsed response body as the
\* transport gave it, with no decryption.
C15_GetStatus ==
    call.op = "getStatus" =>
        /\ Dispatched =>
             /\ call.request.method = "GET"
             /\ call.request.url
                    = BaseUrl \o <<Lit("/submission/"), Lit(call.args.submissionId.s)>>
        /\ Answered => call.pc = "resolved" /\ call.value = BodyValue(call.body)

\* getStatus has resolved to a body that holds a ciphertext.
C15_Witness ==
    /\ call.op = "getStatus" /\ call.pc = "resolved"
    /\ call.body.payload.t = "string"
    /\ call.value.t = "body" /\ call.value.body = call.body

(***************************************************************************)
(* Access tokens.                                                          *)
(***************************************************************************)
\* The step is the synchronous part of a call that builds a request.
Sends ==
    /\ call.pc = "idle"
    /\ call'.op \in {"sendGet", "sendPost", "getData", "setData", "getStatus", "submit"}
    /\ call'.generated # <<>> \/ call'.pc = "pending"

\* C16: over any sequence of sendGet and sendPost calls (made directly or
\* by getData, setData, getStatus and submit), each call generates exactly
\* one access token, at the time of the call and from the payload of the
\* call; the request it dispatches carries that token in x-access-token;
\* no request goes out without the header, and no token of another call or
\* another time is sent.
C16_OneFreshTokenPerCall ==
    [][/\ Sends =>
            /\ Len(call'.generated) = 1
            /\ call'.generated[1]
                   = [alg |-> "HS256", key |-> client.serviceToken,
                      claims |-> call'.args.payload, iat |-> now \div 1000]
       /\ call'.request.sent =>
            /\ Len(call'.generated) = 1
            /\ call'.request.headers.xAccessToken = call'.generated[1]
            /\ call'.request.headers.xAccessToken.key # 0]_vars

\* A sendPost has dispatched its request after the clock moved on: its
\* token is of the later time and holds the payload posted.
C16_Witness ==
    /\ call.op = "sendPost" /\ call.pc = "pending"
    /\ now = 1000 * MaxTime
    /\ call.request.headers.xAccessToken.iat = MaxTime
    /\ call.request.headers.xAccessToken.claims.keys = {"foo"}

\* The step generates an access token with the generateAccessToken of the
\* class: a direct call of it, or a call that builds a request.
Generates == IsInstance /\ call.pc = "idle" /\ call'.generated # <<>>

\* The payload the step passes to generateAccessToken.
PayloadPassed == call'.args.payload

\* C18: every access token generateAccessToken of FBJWTClient produces,
\* for any payload the client passes (the empty payload of a GET included),
\* verifies under the service token, is signed with HS256, and decodes to
\* the payload's fields plus an iat that is the current Unix time in whole
\* seconds.
C18_TokenVerifies ==
    [][Generates =>
          \A i \in 1..Len(call'.generated) :
              LET decoded == JwtVerify(call'.generated[i], client.serviceToken)
              IN /\ decoded.ok
                 /\ call'.generated[i].alg = "HS256"
                 /\ decoded.claims = PayloadPassed
                 /\ 1000 * decoded.iat <= now /\ now < 1000 * (decoded.iat + 1)]_vars

\* A token was generated half a second after a full second: its iat is
\* that second.
C18_Witness ==
    /\ call.generated # <<>>
    /\ call.op \in {"generateAccessToken", "getData"}
    /\ now = 1000 * (MaxTime - 1) + 500
    /\ call.generated[1].iat = MaxTime - 1
    /\ call.generated[1].claims = EmptyPayload

(***************************************************************************)
(* The user token on the wire.                                             *)
(***************************************************************************)
\* The numbers a JSON value holds.
RECURSIVE JSONLeaves(_)
JSONLeaves(v) ==
    IF v.t = "number" THEN {v}
    ELSE UNION {JSONLeaves(v.a[i]) : i \in 1..Len(v.a)}

\* What a reader without any key gets out of a string field: the numbers
\* of the JSON value it spells, if it spells one.
ReadableIn(sv) ==
    IF sv.t = "string" /\ JSONParse(sv.s).ok THEN JSONLeaves(JSONParse(sv.s).v) ELSE {}

\* What a reader without any key gets out of a payload object.
ReadableInPayload(p) ==
    ReadableIn(p.payload) \cup ReadableIn(p.encrypted_user_id_and_token)
        \cup JSONLeaves(p.submissions) \cup JSONLeaves(p.foo)

\* The request shows the token: in a piece of its URL, in the claims of its
\* access token (signed, not encrypted), or in its body.
Shows(request, token) ==
    \/ \E i \in 1..Len(request.url) : request.url[i].s = ToString(TokenJSON(token).n)
    \/ TokenJSON(token) \in ReadableInPayload(request.headers.xAccessToken.claims)
    \/ request.headers.xAccessToken.claims.service_slug = ToString(TokenJSON(token).n)
    \/ TokenJSON(token) \in ReadableInPayload(request.json.body)
    \/ request.json.body.service_slug = ToString(TokenJSON(token).n)

\* C17: in every outbound request of getData, setData and submit (URL,
\* headers with the claims of the signed access token, body) the user
\* token never appears in plaintext: it is the key of the encryption
\* (datastore) or lies inside the bundle encrypted under the service token
\* (submitter), which the service token opens.
C17_UserTokenNeverInPlaintext ==
    (call.op \in {"getData", "setData", "submit"} /\ call.request.sent) =>
        /\ ~Shows(call.request, call.args.userToken)
        /\ call.op = "submit" =>
             LET bundle == decrypt(client, client.serviceToken,
                                   call.request.json.body.encrypted_user_id_and_token)
             IN ~bundle.thrown /\ TokenJSON(call.args.userToken) \in JSONLeaves(bundle.v)

\* submit has dispatched a request whose bundle holds the user token.
C17_Witness ==
    /\ call.op = "submit" /\ call.pc = "pending"
    /\ call.args.userToken # client.serviceToken
    /\ TokenJSON(call.args.userToken)
          \in JSONLeaves(decrypt(client, client.serviceToken,
                    call.request.json.body.encrypted_user_id_and_token).v)

(***************************************************************************)
(* Calls in flight together.                                               *)
(***************************************************************************)
\* The requests the operation of c dispatches when it runs alone on the
\* client with the arguments of c, at the time its token tells.
RequestsAlone(c) ==
    LET t == 1000 * c.request.headers.xAccessToken.iat
        userKeys == [serviceSlug |-> Str(client.serviceSlug), userId |-> c.args.userId]
        options ==
            CASE c.op = "getData" ->
                   {createRequestOptions(client, client.endpoints.get, userKeys,
                                         EmptyPayload, t).options}
              [] c.op = "setData" ->
                   {createRequestOptions(client, client.endpoints.set, userKeys,
                        [EmptyPayload EXCEPT
                            !.keys = {"payload"},
                            !.payload = encrypt(client, c.args.userToken, c.args.data, iv).s],
                        t).options : iv \in IVs}
              [] c.op = "getStatus" ->
                   {createRequestOptions(client, client.endpoints.getStatus,
                                         [submissionId |-> c.args.submissionId],
                                         EmptyPayload, t).options}
              [] c.op = "submit" ->
                   {createRequestOptions(client, client.endpoints.submit, NoKeys,
                        [EmptyPayload EXCEPT
                            !.keys = {"service_slug", "encrypted_user_id_and_token",
                                      "submissions"},
                            !.service_slug = client.serviceSlug,
                            !.encrypted_user_id_and_token =
                                encryptUserIdAndToken(client, c.args.userId,
                                                      c.args.userToken, iv).s,
                            !.submissions = c.args.data],
                        t).options : iv \in IVs}
              [] c.op = "sendGet" ->
                   {createRequestOptions(client, c.args.url, NoKeys,
                                         EmptyPayload, t).options}
              [] c.op = "sendPost" ->
                   {createRequestOptions(client, c.args.url, NoKeys,
                                         c.args.payload, t).options}
        method == IF c.op \in {"getData", "getStatus", "sendGet"} THEN "GET" ELSE "POST"
    IN {[r EXCEPT !.sent = TRUE, !.method = method] : r \in options}

\* c has the result its operation gives when it runs alone on the client
\* and the transport settles its request as it settled that of c.
ResultAlone(c) ==
    /\ (c.pc = "rejected" /\ c.raw.t # "none") =>
           c.error = handleRequestError(client, c.raw)
    /\ (c.pc = "rejected" /\ c.raw.t = "none") =>
           /\ c.op = "getData"
           /\ c.error = IF c.body.t \in {"undefined", "null"} THEN NewTypeError
                        ELSE decrypt(client, c.args.userToken, c.body.payload).error
           /\ c.error # NoError
    /\ c.pc = "resolved" =>
           c.value = CASE c.op \in {"sendGet", "sendPost", "getStatus"} -> BodyValue(c.body)
                       [] c.op \in {"setData", "submit"} -> UndefinedValue
                       [] c.op = "getData" ->
                            JSONValue(decrypt(client, c.args.userToken, c.body.payload).v)

\* C19: no operation of a constructed client modifies its serviceToken,
\* serviceSlug, endpoints or ErrorClass, and a step of one call leaves the
\* call set aside as it is; so, however the steps of two calls on one
\* instance interleave, each call's request and result are those of the
\* call run alone with the same transport response.
C19_CallsIndependent ==
    [][/\ client.constructed => client' = client
       /\ other' # other => (other' = call /\ call' = other)
       /\ call'.request.sent =>
            (call'.request \in RequestsAlone(call') /\ ResultAlone(call'))]_vars

\* getData has resolved for one user while a getData for another user,
\* on the same client, is still waiting for the datastore.
C19_Witness ==
    /\ call.op = "getData" /\ call.pc = "resolved"
    /\ other.op = "getData" /\ other.pc = "pending"
    /\ other.args.userToken # call.args.userToken
    /\ call.value = JSONValue(JNum(23))

(***************************************************************************)
(* Failures of decryption in getData.                                      *)
(***************************************************************************)
\* C20: no failure is swallowed: in every client variant (getData of the
\* class, external.get of the module), when the transport resolves with a
\* response whose payload cannot be decrypted under the user token, the
\* promise rejects with the error EINVALIDPAYLOAD, code 500, and does not
\* resolve, with undefined or with any other value.
C20_UndecryptablePayloadRejects ==
    (/\ call.op \in {"getData", "external.get"}
     /\ Answered
     /\ call.body.t = "object"
     /\ decrypt(client, call.args.userToken, call.body.payload).thrown)
        => /\ call.pc = "rejected"
           /\ IsClientError(call.error, Num(500), Str("EINVALIDPAYLOAD"))

(***************************************************************************)
(* The calls of the transport.                                             *)
(***************************************************************************)
DomainOps == {"getData", "setData", "submit", "getStatus"}

\* C21: each call of getData, setData, submit or getStatus that reaches the
\* transport invokes it exactly once, whether the transport resolves or
\* rejects: no step of a call that has dispatched its request invokes the
\* transport again, and a rejection of the transport is followed by the
\* rejection of the call, never by a second request.
C21_TransportCalledOnce ==
    [][/\ (call'.op \in DomainOps /\ call'.request.sent) => call'.transportCalls = 1
       /\ (call'.op \in DomainOps /\ ~call'.request.sent) => call'.transportCalls = 0
       /\ (call.op \in DomainOps /\ call.pc = "transportRejected" /\ call' # call)
             => (call'.pc = "rejected" /\ call'.transportCalls = 1)]_vars

\* submit was rejected after the transport rejected its one request.
C21_Witness ==
    /\ call.op = "submit" /\ call.pc = "rejected"
    /\ call.raw.id = "raw"
    /\ call.transportCalls = 1

(***************************************************************************)
(* The module-level client before and after external.init.                 *)
(***************************************************************************)
ExternalOps == {"external.generateAccessToken", "external.get", "external.set"}

\* C22: in the module-level client, a call of generateAccessToken, get or
\* set made while the module holds no service token (external.init has not
\* run, or has run with an empty token) fails with an error of code
\* ENOSERVICETOKEN, thrown or as the rejection of the promise, and hands no
\* request to the transport.
C22_NoServiceTokenNoRequest ==
    (call.op \in ExternalOps /\ external_serviceToken = 0)
        => /\ call.pc \in {"threw", "rejected"}
           /\ call.error.code = Str("ENOSERVICETOKEN")
           /\ call.error.inst = external_FBUserDataStoreClientError
           /\ ~call.request.sent
           /\ call.transportCalls = 0
           /\ call.generated = <<>>

\* external.get was called before any external.init and its promise is
\* rejected.
C22_Witness ==
    /\ call.op = "external.get" /\ call.pc = "rejected"
    /\ client = NoClient
    /\ call.error.code = Str("ENOSERVICETOKEN")
    /\ ~call.request.sent

\* The endpoint a single external.init(serviceSlug, sToken, userDataStoreUrl)
\* configures: the base URL, then the template with the slug in it.
ConfiguredEndpoint(userDataStoreUrl, serviceSlug) ==
    userDataStoreUrl \o <<Lit("/service/"), Lit(serviceSlug), Lit("/user/"),
                          Param("userId"), Lit(".json")>>

\* C28: after any sequence of one or more external.init calls, the
\* endpoints for get and for set are the base URL of the latest call
\* followed exactly once by the path template with the service slug of the
\* latest call: a second init neither prefixes an endpoint again nor keeps
\* the earlier slug.
C28_EndpointsOfLatestInit ==
    (call.op = "external.init" /\ call.pc = "returned")
        => /\ client.endpoints.get
                  = ConfiguredEndpoint(call.args.url, call.args.serviceSlug)
           /\ client.endpoints.set
                  = ConfiguredEndpoint(call.args.url, call.args.serviceSlug)

(***************************************************************************)
(* The request options and the failures before the dispatch.               *)
(***************************************************************************)
SendOps == {"sendGet", "sendPost", "getData", "setData", "getStatus", "submit"}

\* C23: the json option of every request createRequestOptions builds is
\* the payload object when the payload has at least one own key, and true
\* when the payload is absent or an empty object; so a sendPost with an
\* empty payload dispatches a POST with no body, and every GET goes out
\* with json: true.
C23_JsonOption ==
    (call.op \in SendOps /\ call.request.sent) =>
        /\ call.request.json
               = IF call.args.payload.keys # {}
                 THEN [isTrue |-> FALSE, body |-> call.args.payload]
                 ELSE [isTrue |-> TRUE, body |-> EmptyPayload]
        /\ call.request.method = "GET" => call.request.json.isTrue

\* A sendPost with an empty payload has dispatched a POST with json: true.
C23_Witness ==
    /\ call.op = "sendPost" /\ call.pc = "pending"
    /\ call.args.payload = EmptyPayload
    /\ call.request.method = "POST"
    /\ call.request.json.isTrue

\* C24: sendGet and sendPost always return a promise and report every
\* failure as a rejection: when the URL cannot be resolved (a placeholder
\* of the pattern has no value) the call does not throw synchronously, it
\* rejects, and no request is dispatched.
C24_FailuresAreRejections ==
    call.op \in {"sendGet", "sendPost"} =>
        /\ call.pc # "threw"
        /\ call.pc = "rejected" \/ call.request.sent

(***************************************************************************)
(* Rejections and bodies that are no objects, and errors under the name    *)
(* of the client's error class.                                            *)
(***************************************************************************)
\* C25: for every value the transport rejects with (undefined, null, a
\* string and an object whose statusCode is 0 included), sendGet and
\* sendPost reject with an error of the client's own error class that
\* carries the code and the message of the decision table; they do not
\* resolve and do not reject with a raw error such as a TypeError.
C25_EveryRejectionNormalized ==
    (/\ call.op \in {"sendGet", "sendPost"}
     /\ call.raw.id = "raw"
     /\ call.pc \in {"resolved", "rejected"})
        => /\ call.pc = "rejected"
           /\ call.error.inst = client.ErrorClass
           /\ RowOutcome(FirstRow(call.raw), call.raw, call.error)

\* The rows of the decision table after the first that an error matches.
LaterRows(e) == RowsMatched(e) \ {1}

\* C26: handleRequestError rethrows an error unchanged only if the error
\* was created by the client's own error class; an object that merely has
\* the name of the class, or an error of the class another instance
\* declared, is classified by the statusCode and error.code rows like any
\* other raw error.
C26_OnlyOwnErrorsRethrown ==
    (HandlerRan /\ Handled.t \in {"object", "string"} /\ Handled.inst # client.ErrorClass)
        => /\ call.error # Handled
           /\ call.error.inst = client.ErrorClass
           /\ \E r \in LaterRows(Handled) :
                  /\ \A q \in LaterRows(Handled) : r <= q
                  /\ RowOutcome(r, Handled, call.error)

\* C27: when the transport resolves the request of getData with a body
\* that is undefined, null or without a payload field, getData rejects
\* with a client error of the datastore client's error class: it does not
\* resolve and does not reject with a raw TypeError.
C27_BodyWithoutPayloadRejects ==
    (/\ call.op = "getData"
     /\ Answered
     /\ call.body.t \in {"undefined", "null"} \/ "payload" \notin call.body.keys)
        => /\ call.pc = "rejected"
           /\ call.error.inst = client.ErrorClass
           /\ call.error.name = Str("FBUserDataStoreClientError")

(***************************************************************************)
(* The URL of a request.                                                   *)
(***************************************************************************)
\* The path template of an operation and the substitutions it supplies.
TemplateOf(op) ==
    CASE op \in {"getData", "setData"} -> endpointUrlTemplate
      [] op = "getStatus" -> SubmitterEndpoints.getStatus
      [] op = "submit" -> SubmitterEndpoints.submit

SubstitutionsOf(c) ==
    CASE c.op \in {"getData", "setData"} ->
             [serviceSlug |-> Str(client.serviceSlug), userId |-> c.args.userId]
      [] c.op = "getStatus" -> [submissionId |-> c.args.submissionId]
      [] c.op = "submit" -> NoKeys

\* The endpoint of an operation on the client: the base URL the client was
\* constructed with, then the template.
EndpointOf(op) ==
    CASE op = "getData" -> client.endpoints.get
      [] op = "setData" -> client.endpoints.set
      [] op = "getStatus" -> client.endpoints.getStatus
      [] op = "submit" -> client.endpoints.submit

\* The base URL as configured, then the template with each placeholder
\* replaced by its value.
ExpectedUrl(c) ==
    LET endpoint == EndpointOf(c.op)
        template == TemplateOf(c.op)
        keys == SubstitutionsOf(c)
        base == Len(endpoint) - Len(template)
    IN [i \in 1..Len(endpoint) |->
           IF i > base /\ endpoint[i].k = "param"
           THEN Lit(IF keys[endpoint[i].s].t = "number"
                    THEN ToString(keys[endpoint[i].s].n)
                    ELSE keys[endpoint[i].s].s)
           ELSE endpoint[i]]

\* C29: for every configured base URL, one with an explicit port such as
\* http://host:3000 included, and substitutions for all the placeholders
\* of the path template, getData, setData, getStatus and submit request
\* the base URL, unchanged, followed by the path template with each :name
\* placeholder replaced by its value.
C29_RequestedUrl ==
    (call.op \in DomainOps /\ call.pc # "idle")
        => /\ call.request.sent
           /\ call.request.url = ExpectedUrl(call)

(***************************************************************************)
(* A call settles when its transport call settles.                         *)
(***************************************************************************)
TransportSettled == call.pc \in {"transportResolved", "transportRejected"}

Settled == call.pc \in {"resolved", "rejected"}

\* C30: a call of sendGet, sendPost, getData, setData, submit or getStatus
\* settles exactly when its transport call settles: while the transport
\* has not settled the call stays pending, whatever else happens (the
\* client has no timeout and no cancellation); once the transport has
\* resolved or rejected, the call resolves or rejects; and a call that has
\* settled keeps its outcome, it does not settle a second time.
C30_SettlesWithTransport ==
    /\ [][call.op \in SendOps =>
             /\ (call.pc = "pending" /\ call' # call) => TransportSettled'
             /\ (TransportSettled /\ call' # call) => (Settled' /\ call'.op = call.op)
             /\ (Settled /\ call' # call) => call'.pc = "idle"]_vars
    /\ (call.op \in SendOps /\ TransportSettled) ~> Settled

\* getStatus has settled after the transport rejected with undefined: the
\* call is rejected, with the TypeError of the handler.
C30_Witness ==
    /\ call.op = "getStatus" /\ call.pc = "rejected"
    /\ call.raw.t = "undefined"
    /\ call.error = NewTypeError
    /\ call.transportCalls = 1

====
